---------------------------- MODULE Spec2Model ----------------------------
(***************************************************************************)
(* State-machine model of the adaptive media pipeline of the RxPlayer:     *)
(*   - the segment fetcher and its request accounting                      *)
(*     (core/fetchers/segment/create_segment_loader.ts, the DASH loader);  *)
(*   - the ABR RepresentationEstimator (core/abr);                         *)
(*   - the PlaybackObserver (core/api/playback_observer.ts);               *)
(*   - the TrackChoiceManager;                                             *)
(*   - the DASH TemplateRepresentationIndex and BaseRepresentationIndex;   *)
(*   - the DASH MPD parser's continuations (clock, xlinks);                *)
(*   - the Adaptation constructor (manifest/adaptation.ts);                *)
(*   - the Streams' view of the PlaybackObserver                           *)
(*     (createStreamPlaybackObserver) and pushInitSegment.                 *)
(* Each component has its own specification (SpecFetch, SpecABR, SpecObs,  *)
(* SpecTCM, SpecTemplate, SpecBase, SpecMPD, SpecAdaptation,               *)
(* SpecStreamObs, SpecPushInit); the variables of the others stay at their *)
(* initial value.                                                          *)
(***************************************************************************)
EXTENDS Integers, Sequences, FiniteSets, TLC

VARIABLES
  \* ---- segment fetcher -------------------------------------------------
  customLoader,     \* TRUE when a custom segment loader is configured
  fetchStatus,      \* per fetchSegment call: idle / open / waiting / complete / error / cancelled
  sentIds,          \* per fetchSegment call: the `sentIds` array
  loaderState,      \* per fetchSegment call: state of the transport loader's current attempt
  attempts,         \* per fetchSegment call: number of loader attempts started
  nbProgress,       \* per fetchSegment call: number of loader progress callbacks so far
  requestsStore,    \* the estimator's PendingRequestsStore: id -> request information
  nbRequestBegin,   \* history: number of requestBegin sent on requests$, per id
  nbRequestEnd,     \* history: number of requestEnd sent on requests$, per id
  strayProgress,    \* history: a progress was sent for an id that was not open
  loaderLowLatencyMode, \* the lowLatencyMode option of the transport's segment loader
  nbChunks,         \* per fetchSegment call: number of "data-chunk" events so far
  fetchOutput,      \* history, per fetchSegment call: the events sent to its subscriber
  nbAbort,          \* history, per fetchSegment call: aborts of the custom loader and of the built-in request
  fetchCall,        \* history: the last operation made on a fetch
  fetcherBufferType, \* the bufferType createSegmentFetcher was called with
  cacheFilled,      \* the fetcher's segment cache holds an entry
  requestsSent,     \* history: the types of the events the last step sent on requests$
  \* ---- playback observer -----------------------------------------------
  observerOptions,  \* [withMediaSource, lowLatencyMode]
  mediaElement,     \* the attributes of the HTMLMediaElement the observer reads
  internalSeekingEventsIncomingCounter,
  lastObservation,  \* what is kept of _lastObservation: event, position, rebuffering, freezing
  pendingSeek,      \* position inside setCurrentTime: None, or Some(time) once the counter is raised
  lastEvent,        \* history: the media event that triggered the last observation
  obsNow,           \* performance.now(), which grows from one observation to the next
  \* ---- ABR representation estimator -------------------------------------
  manualBitrate,    \* last value of manualBitrate$ (negative: auto mode)
  abrClock,         \* last value of clock$
  minAutoBitrate,   \* last value of minAutoBitrate$
  maxAutoBitrate,   \* last value of maxAutoBitrate$
  abrFilters,       \* last value of filters$
  bufferBasedBitrate,         \* last value of bufferBasedEstimation$
  currentRepresentation,      \* last value of currentRepresentation$
  prevEstimate,               \* the EstimateStorage of the auto-mode session
  allowBufferBasedEstimates,
  blockGuessingModeUntil,
  consecutiveWrongGuesses,
  lastEstimate,     \* the last estimate sent since manualBitrate$ last spoke
  guessOutcome,     \* history: what the guess logic did at the last estimate
  abrNow,           \* performance.now(), in milliseconds
  nbTimeSteps,      \* number of times abrNow was moved forward
  abrRepresentations, \* the `representations` argument of the estimator
  \* ---- track choice manager --------------------------------------------
  tcmStore,         \* _store: the Period records, each with its audio, video and text choice
  trickModeTrackEnabled,
  periodContents,   \* the supported Adaptations each Period object currently holds
  subscribers,      \* history: the << type, Period id >> whose subject was added and not removed
  absentPeriods,    \* history: stored Periods that the last updatePeriodList did not list
  lastCall,         \* history: the last method called, with the list updatePeriodList got
  nexted,           \* history: what the last call sent through subjects, in order
  nbCalls,          \* number of calls made to the manager
  videoChoice,      \* history: per stored Period, the video track the user last asked for
  unknownPeriodCall, \* history: the method last called if its Period id was in no record, else "none"
  threw,            \* history: the last call threw
  returned,         \* history: what the last call returned
  \* ---- template representation index -----------------------------------
  templateIndex,    \* the TemplateRepresentationIndex: _index, its context and the Manifest bounds
  templateRange,    \* history: the range given to the last call when it was getSegments, else None
  templateSegments, \* history: what that getSegments call returned
  templatePosition, \* history: the last call and its result when it was getFirstPosition or getLastPosition, else None
  \* ---- base representation index ---------------------------------------
  baseIndex,        \* BaseRepresentationIndex._index: its timescale and timeline
  baseIsInitialized,
  baseLastAdded,    \* history: the list given to the last _addSegments call, None before any
  nbAddSegments,    \* number of _addSegments calls made
  \* ---- MPD parser -------------------------------------------------------
  mpdRoot,          \* the root of the MPD: type, UTCTiming elements
  mpdPeriods,       \* rootChildren.periods
  mpdExternalClockOffset, \* args.externalClockOffset
  mpdWarnings,      \* the `warnings` array the calls of parseMpdIr share
  mpdHasLoadedClock,
  mpdResponse,      \* type of the parser response last processed
  mpdXlinksToLoad,  \* `xlinksToLoad` of a needs-xlinks response
  mpdStatus,        \* idle / waiting (resources requested) / done / error / cancelled
  mpdCancelled,     \* cancelSignal.isCancelled
  nbClockRequests,  \* history: number of requests made for the clock
  fetchedWarnings,  \* history: the warnings of the resources fetched so far
  reportedWarnings, \* history: the warnings of the done response
  \* ---- Adaptation -------------------------------------------------------
  builtAdaptation,  \* the Adaptation last constructed, None before any
  parsedAdaptation, \* history: what the constructor was given
  \* ---- Stream playback observer ----------------------------------------
  streamLastObservation, \* PlaybackObserver._lastObservation, the observations being numbered
  streamSpeed,      \* last value of speed$
  streamListeners,  \* per subscription to the Stream observer's listen: see NoListener
  nbStreamEvents,  \* number of observations made and of speeds set
  \* ---- pushInitSegment ---------------------------------------------------
  initPushes,       \* per subscription to a pushInitSegment Observable: see NoInitPush
  appendCalls       \* history: the data given to appendSegmentToBuffer for the SegmentBuffer, in order

fetchVars == << customLoader, fetchStatus, sentIds, loaderState, attempts,
                nbProgress, requestsStore, nbRequestBegin, nbRequestEnd,
                strayProgress, loaderLowLatencyMode, nbChunks, fetchOutput, nbAbort,
                fetchCall, fetcherBufferType, cacheFilled, requestsSent >>

obsVars == << observerOptions, mediaElement, internalSeekingEventsIncomingCounter,
              lastObservation, pendingSeek, lastEvent, obsNow >>

abrVars == << manualBitrate, abrClock, minAutoBitrate, maxAutoBitrate, abrFilters,
              bufferBasedBitrate, currentRepresentation, prevEstimate,
              allowBufferBasedEstimates, blockGuessingModeUntil,
              consecutiveWrongGuesses, lastEstimate, guessOutcome, abrNow,
              nbTimeSteps, abrRepresentations >>

tcmVars == << tcmStore, trickModeTrackEnabled, periodContents, subscribers,
              absentPeriods, lastCall, nexted, nbCalls, videoChoice,
              unknownPeriodCall, threw, returned >>

templateVars == << templateIndex, templateRange, templateSegments, templatePosition >>

baseVars == << baseIndex, baseIsInitialized, baseLastAdded, nbAddSegments >>

mpdVars == << mpdRoot, mpdPeriods, mpdExternalClockOffset, mpdWarnings, mpdHasLoadedClock,
              mpdResponse, mpdXlinksToLoad, mpdStatus, mpdCancelled, nbClockRequests,
              fetchedWarnings, reportedWarnings >>

adaptationVars == << builtAdaptation, parsedAdaptation >>

streamObsVars == << streamLastObservation, streamSpeed, streamListeners, nbStreamEvents >>

pushInitVars == << initPushes, appendCalls >>

vars == << fetchVars, obsVars, abrVars, tcmVars, templateVars, baseVars, mpdVars,
           adaptationVars, streamObsVars, pushInitVars >>

\* What the actions of one component leave alone.
notFetchVars == << obsVars, abrVars, tcmVars, templateVars, baseVars, mpdVars,
                   adaptationVars, streamObsVars, pushInitVars >>
notObsVars == << fetchVars, abrVars, tcmVars, templateVars, baseVars, mpdVars,
                 adaptationVars, streamObsVars, pushInitVars >>
notAbrVars == << fetchVars, obsVars, tcmVars, templateVars, baseVars, mpdVars,
                 adaptationVars, streamObsVars, pushInitVars >>
notTcmVars == << fetchVars, obsVars, abrVars, templateVars, baseVars, mpdVars,
                 adaptationVars, streamObsVars, pushInitVars >>
notBaseVars == << fetchVars, obsVars, abrVars, tcmVars, templateVars, mpdVars,
                  adaptationVars, streamObsVars, pushInitVars >>
notTemplateVars == << fetchVars, obsVars, abrVars, tcmVars, baseVars, mpdVars,
                      adaptationVars, streamObsVars, pushInitVars >>
notMpdVars == << fetchVars, obsVars, abrVars, tcmVars, templateVars, baseVars,
                 adaptationVars, streamObsVars, pushInitVars >>
notAdaptationVars == << fetchVars, obsVars, abrVars, tcmVars, templateVars, baseVars,
                        mpdVars, streamObsVars, pushInitVars >>
notStreamObsVars == << fetchVars, obsVars, abrVars, tcmVars, templateVars, baseVars,
                       mpdVars, adaptationVars, pushInitVars >>
notPushInitVars == << fetchVars, obsVars, abrVars, tcmVars, templateVars, baseVars,
                      mpdVars, adaptationVars, streamObsVars >>

\* Optional values (null / undefined in the source): None, or Some(v).
None == << >>
Some(v) == << v >>

Max2(a, b) == IF a >= b THEN a ELSE b
Min2(a, b) == IF a <= b THEN a ELSE b

-----------------------------------------------------------------------------
(***************************************************************************)
(*                           SEGMENT FETCHER                               *)
(***************************************************************************)

\* Number of loader attempts the backoff grants to one fetch.
MaxAttempts == 2
\* Number of progress callbacks modelled per fetch.
MaxProgress == 1

\* The idPrefix values handed out by generateRequestIdPrefix: one per
\* fetchSegment call, two concurrent calls being modelled.
Fetches == { 1, 2 }

\* Request ids the regular loader gives to its requests (one per attempt).
RequestIds == 1..MaxAttempts

\* getFetcherId: idPrefix + (requestId !== undefined ? "_" + requestId : "")
getFetcherId(idPrefix, requestId) ==
  IF requestId # None THEN << idPrefix, requestId[1] >> ELSE << idPrefix >>

FetcherIds == { getFetcherId(f, None) : f \in Fetches }
                \cup { getFetcherId(f, Some(r)) : f \in Fetches, r \in RequestIds }

\* Events of the transport's segment loader, as seen by fetchSegment's tap.
LoaderEvent(type, requestId, size, totalSize, duration) ==
  [ type |-> type, requestId |-> requestId, size |-> size,
    totalSize |-> totalSize, duration |-> duration ]

\* Events sent on the ABR requests$ subject.
AbrEvent(type, id) == [ type |-> type, id |-> id ]

\* Array.prototype.indexOf, 1-based; 0 when absent.
IndexOf(seq, x) ==
  IF \E i \in DOMAIN seq : seq[i] = x
    THEN CHOOSE i \in DOMAIN seq : seq[i] = x /\ \A j \in 1..(i - 1) : seq[j] # x
    ELSE 0

\* Array.prototype.splice(index, 1), 1-based.
Splice1(seq, index) ==
  [ i \in 1..(Len(seq) - 1) |-> IF i < index THEN seq[i] ELSE seq[i + 1] ]

\* The "request-end" case of fetchSegment's tap: a requestEnd is sent only
\* for an id still in sentIds, which is then removed from it.
TapRequestEnd(ids, id) ==
  LET index == IndexOf(ids, id) IN
  IF index >= 1
    THEN [ ids |-> Splice1(ids, index), out |-> << AbrEvent("requestEnd", id) >> ]
    ELSE [ ids |-> ids, out |-> << >> ]

\* fetchSegment's tap: the effect of one loader event on sentIds and the
\* events it sends on requests$.
TapEvent(idPrefix, ids, arg) ==
  LET id == getFetcherId(idPrefix, arg.requestId) IN
  CASE arg.type = "request-begin" ->
         [ ids |-> Append(ids, id), out |-> << AbrEvent("requestBegin", id) >> ]
    [] arg.type = "progress" ->
         [ ids |-> ids,
           out |-> IF arg.totalSize # None /\ arg.size[1] < arg.totalSize[1]
                     THEN << AbrEvent("progress", id) >>
                     ELSE << >> ]
    [] arg.type = "request-end" ->
         LET metrics == IF arg.size # None /\ arg.duration # None
                          THEN << AbrEvent("metrics", id) >>
                          ELSE << >>
             r == TapRequestEnd(ids, id)
         IN [ ids |-> r.ids, out |-> metrics \o r.out ]
    [] OTHER -> [ ids |-> ids, out |-> << >> ]

RECURSIVE TapAll(_, _, _)
TapAll(idPrefix, ids, args) ==
  IF args = << >>
    THEN [ ids |-> ids, out |-> << >> ]
    ELSE LET r1 == TapEvent(idPrefix, ids, Head(args))
             r2 == TapAll(idPrefix, r1.ids, Tail(args))
         IN [ ids |-> r2.ids, out |-> r1.out \o r2.out ]

\* Mutant of Finalize: an `if` in place of the `while`, so that only the
\* first id left in sentIds is ended.
FinalizeFirstOnly(ids) ==
  IF ids = << >> THEN << >> ELSE << AbrEvent("requestEnd", ids[1]) >>

\* fetchSegment's finalize: a requestEnd for every id left in sentIds.
Finalize(ids) ==
  [ i \in 1..Len(ids) |-> AbrEvent("requestEnd", ids[i]) ]

\* Information the estimator keeps for one pending request.
RequestInfo(id, representation, isInit, requestTimestamp, duration, fastBw) ==
  [ id |-> id, representation |-> representation, isInit |-> isInit,
    requestTimestamp |-> requestTimestamp, duration |-> duration,
    fastBw |-> fastBw ]

\* PendingRequestsStore.add / remove: the store is keyed by request id.
StoreAdd(store, info) ==
  [ i \in (DOMAIN store) \cup { info.id } |->
      IF i = info.id THEN info ELSE store[i] ]

StoreRemove(store, id) ==
  [ i \in (DOMAIN store) \ { id } |-> store[i] ]

\* The estimator's requests$ handler for one event of the fetcher.
OnRequestsEvent(store, evt) ==
  CASE evt.type = "requestBegin" ->
         StoreAdd(store, RequestInfo(evt.id, evt.id[1], FALSE, 0, 0, None))
    [] evt.type = "requestEnd" -> StoreRemove(store, evt.id)
    [] OTHER -> store

RECURSIVE OnRequestsEvents(_, _)
OnRequestsEvents(store, evts) ==
  IF evts = << >> THEN store
  ELSE OnRequestsEvents(OnRequestsEvent(store, Head(evts)), Tail(evts))

\* History bookkeeping of what was sent on requests$.
CountSent(evts, type, id) ==
  Cardinality({ i \in DOMAIN evts : evts[i].type = type /\ evts[i].id = id })

CountSentBefore(evts, n, type, id) ==
  Cardinality({ i \in 1..(n - 1) : evts[i].type = type /\ evts[i].id = id })

IsStray(evts, n) ==
  /\ evts[n].type = "progress"
  /\ nbRequestBegin[evts[n].id] + CountSentBefore(evts, n, "requestBegin", evts[n].id)
       <= nbRequestEnd[evts[n].id] + CountSentBefore(evts, n, "requestEnd", evts[n].id)

\* Everything a batch of requests$ events changes outside the fetch itself.
Send(evts) ==
  /\ requestsStore' = OnRequestsEvents(requestsStore, evts)
  /\ nbRequestBegin' = [ id \in FetcherIds |->
                           nbRequestBegin[id] + CountSent(evts, "requestBegin", id) ]
  /\ nbRequestEnd' = [ id \in FetcherIds |->
                         nbRequestEnd[id] + CountSent(evts, "requestEnd", id) ]
  /\ strayProgress' = (strayProgress \/ \E n \in DOMAIN evts : IsStray(evts, n))
  /\ requestsSent' = [ n \in DOMAIN evts |-> evts[n].type ]

\* Mutant of HasCache: every fetcher has a cache.
HasCacheAlways(bufferType) == TRUE

\* createSegmentFetcher gives a cache to the audio and video fetchers only.
HasCache(bufferType) == bufferType \in { "audio", "video" }

\* The fetchers modelled, << custom loader, lowLatencyMode, bufferType >>: a
\* video fetcher with each kind of loader, an audio and a text fetcher with
\* the regular one.
FetcherConfigs ==
  { << custom, lowLatency, "video" >> : custom, lowLatency \in BOOLEAN }
    \cup { << FALSE, FALSE, "audio" >>, << FALSE, FALSE, "text" >> }

\* loadData's map: a "data" response of the loader is added to the cache,
\* when there is one.
CacheAdd(args) ==
  cacheFilled' = ( \/ cacheFilled
                   \/ /\ HasCache(fetcherBufferType)
                      /\ \E i \in DOMAIN args : args[i].type = "data" )

NoLoader == [ kind |-> "none", hasFinished |-> FALSE, hasFallbacked |-> FALSE,
              requestId |-> None, hasAbort |-> FALSE ]

\* Number of "data-chunk" events the low-latency loader sends for one fetch.
MaxChunks == 1

\* Events fetchSegment sends to its subscriber.
FetcherEvent(type, isChunked) == [ type |-> type, isChunked |-> isChunked ]

\* loadSegment's mergeMap: the type of the event it sends for a loader event.
loadSegment(type) ==
  CASE type \in { "cache", "data" } -> "data"
    [] type = "data-chunk" -> "chunk"
    [] type = "data-chunk-complete" -> "chunk-complete"
    [] OTHER -> type

\* Mutant of fetchSegmentOutput: `isChunked` is not looked at, a
\* "chunk-complete" follows every chunk.
fetchSegmentOutputAlwaysComplete(type) ==
  CASE type = "warning" -> << FetcherEvent("warning", FALSE) >>
    [] type = "chunk-complete" -> << FetcherEvent("chunk-complete", FALSE) >>
    [] type = "chunk" -> << FetcherEvent("chunk", TRUE),
                            FetcherEvent("chunk-complete", FALSE) >>
    [] type = "data" -> << FetcherEvent("chunk", FALSE),
                           FetcherEvent("chunk-complete", FALSE) >>
    [] OTHER -> << >>

\* fetchSegment's filter and mergeMap: what the subscriber receives for one
\* event of loadSegment.
fetchSegmentOutput(type) ==
  CASE type = "warning" -> << FetcherEvent("warning", FALSE) >>
    [] type = "chunk-complete" -> << FetcherEvent("chunk-complete", FALSE) >>
    [] type = "chunk" -> << FetcherEvent("chunk", TRUE) >>
    [] type = "data" -> << FetcherEvent("chunk", FALSE),
                           FetcherEvent("chunk-complete", FALSE) >>
    [] OTHER -> << >>

RECURSIVE OutputAll(_)
OutputAll(args) ==
  IF args = << >> THEN << >>
  ELSE fetchSegmentOutput(loadSegment(Head(args).type)) \o OutputAll(Tail(args))

\* Mutant of segmentLoaderKind: the custom loader is never looked at.
segmentLoaderKindNoCustom(lowLatency, custom) ==
  IF lowLatency THEN "lowLatency" ELSE "regular"

\* The loader segmentLoader starts for a segment with a URL: the built-in
\* one when lowLatencyMode is set or no custom loader is configured (the
\* built-in loader of loaderLowLatencyMode being the chunked one, the segment being
\* a media segment fetched with the fetch API), the custom one otherwise.
segmentLoaderKind(lowLatency, custom) ==
  IF lowLatency \/ ~custom
    THEN IF lowLatency THEN "lowLatency" ELSE "regular"
    ELSE "custom"

BuiltIn == { "regular", "lowLatency" }

\* Mutant of CallbackAllowed: `hasFallbacked` is not looked at.
CallbackAllowedAlways(state) == TRUE

\* The guard of the custom loader's resolve, reject and progress callbacks.
CallbackAllowed(state) == ~state.hasFallbacked

\* Mutant of Teardown: `hasFallbacked` is not looked at.
TeardownNoFallbackCheck(state, cancelled) ==
  [ custom |-> IF /\ state.kind = "custom" \/ state.hasFallbacked
                  /\ ~state.hasFinished
                  /\ state.hasAbort
                 THEN 1 ELSE 0,
    regular |-> IF cancelled /\ state.kind \in BuiltIn THEN 1 ELSE 0 ]

\* What ends with one attempt of the loader, as numbers of aborts: the
\* teardown of the custom loader's Observable calls abort() when the loader
\* has neither finished nor fallen back and gave an abort function; the
\* subscription to the built-in loader, which fallback() adds to the same
\* subscriber, ends the built-in request when it is unsubscribed in flight.
Teardown(state, cancelled) ==
  [ custom |-> IF /\ state.kind = "custom" \/ state.hasFallbacked
                  /\ ~state.hasFinished
                  /\ ~state.hasFallbacked
                  /\ state.hasAbort
                 THEN 1 ELSE 0,
    regular |-> IF cancelled /\ state.kind \in BuiltIn THEN 1 ELSE 0 ]

\* The attempt of fetch `f` ends in loader state `state`.
EndAttempt(f, state, cancelled) ==
  LET t == Teardown(state, cancelled) IN
  nbAbort' = [ nbAbort EXCEPT ![f] = [ custom |-> @.custom + t.custom,
                                       regular |-> @.regular + t.regular ] ]

\* History: the last operation made on a fetch.
FetchCalled(f, op) == fetchCall' = [ f |-> f, op |-> op ]

FetchInit(custom, lowLatency, type) ==
  /\ customLoader = custom
  /\ fetcherBufferType = type
  /\ cacheFilled = FALSE
  /\ requestsSent = << >>
  /\ loaderLowLatencyMode = lowLatency
  /\ fetchStatus = [ f \in Fetches |-> "idle" ]
  /\ sentIds = [ f \in Fetches |-> << >> ]
  /\ loaderState = [ f \in Fetches |-> NoLoader ]
  /\ attempts = [ f \in Fetches |-> 0 ]
  /\ nbProgress = [ f \in Fetches |-> 0 ]
  /\ nbChunks = [ f \in Fetches |-> 0 ]
  /\ requestsStore = << >>
  /\ nbRequestBegin = [ id \in FetcherIds |-> 0 ]
  /\ nbRequestEnd = [ id \in FetcherIds |-> 0 ]
  /\ strayProgress = FALSE
  /\ fetchOutput = [ f \in Fetches |-> << >> ]
  /\ nbAbort = [ f \in Fetches |-> [ custom |-> 0, regular |-> 0 ] ]
  /\ fetchCall = [ f |-> 0, op |-> "none" ]

\* The loader events of a fetch `f` pass through the tap, the filter and the
\* mergeMap; the fetch stays open.
Deliver(f, args) ==
  LET r == TapAll(f, sentIds[f], args) IN
  /\ sentIds' = [ sentIds EXCEPT ![f] = r.ids ]
  /\ fetchOutput' = [ fetchOutput EXCEPT ![f] = @ \o OutputAll(args) ]
  /\ Send(r.out)
  /\ CacheAdd(args)

\* The loader events pass through the tap, the filter and the mergeMap, then
\* the fetch terminates (completion, error or unsubscription) and finalize
\* runs.
DeliverAndTerminate(f, args, status) ==
  LET r == TapAll(f, sentIds[f], args) IN
  /\ sentIds' = [ sentIds EXCEPT ![f] = << >> ]
  /\ fetchOutput' = [ fetchOutput EXCEPT ![f] = @ \o OutputAll(args) ]
  /\ Send(r.out \o Finalize(r.ids))
  /\ CacheAdd(args)
  /\ fetchStatus' = [ fetchStatus EXCEPT ![f] = status ]
  /\ loaderState' = [ loaderState EXCEPT ![f] = NoLoader ]

\* The transport's segmentLoader is called for one attempt: the custom
\* loader's Observable sends a "request-begin" without requestId and then
\* calls the custom loader, which gives an abort function or not; the regular
\* loader starts a request of its own; the low-latency loader sends nothing
\* before its first chunk.
StartAttempt(f, hasAbort) ==
  LET kind == segmentLoaderKind(loaderLowLatencyMode, customLoader)
      rid == attempts[f] + 1
      begin == CASE kind = "custom" ->
                      << LoaderEvent("request-begin", None, None, None, None) >>
                 [] kind = "regular" ->
                      << LoaderEvent("request-begin", Some(rid), None, None, None) >>
                 [] OTHER -> << >>
  IN
  /\ kind = "custom" \/ ~hasAbort
  /\ attempts' = [ attempts EXCEPT ![f] = @ + 1 ]
  /\ loaderState' = [ loaderState EXCEPT ![f] =
                        [ kind |-> kind,
                          hasFinished |-> FALSE, hasFallbacked |-> FALSE,
                          requestId |-> IF kind = "regular" THEN Some(rid) ELSE None,
                          hasAbort |-> hasAbort ] ]
  /\ fetchStatus' = [ fetchStatus EXCEPT ![f] = "open" ]
  /\ Deliver(f, begin)

\* fetchSegment(content) is subscribed to, for a segment with a URL.
FetchSegment(f, hasAbort) ==
  /\ fetchStatus[f] = "idle"
  /\ StartAttempt(f, hasAbort)
  /\ FetchCalled(f, "fetch")
  /\ UNCHANGED notFetchVars
  /\ UNCHANGED << customLoader, loaderLowLatencyMode, fetcherBufferType, nbProgress, nbChunks, nbAbort >>

\* fetchSegment(content) for a segment without URL: the loader answers
\* { type: "data", responseData: null } at once and completes.
FetchSegmentNoUrl(f) ==
  /\ fetchStatus[f] = "idle"
  /\ DeliverAndTerminate(f, << LoaderEvent("data", None, None, None, None) >>,
                         "complete")
  /\ FetchCalled(f, "fetch")
  /\ UNCHANGED notFetchVars
  /\ UNCHANGED << customLoader, loaderLowLatencyMode, fetcherBufferType, attempts, nbProgress, nbChunks,
                  nbAbort >>

\* fetchSegment(content) for a segment the cache holds: loadData sends one
\* "cache" event and completes, no loader being called.
FetchSegmentFromCache(f) ==
  /\ fetchStatus[f] = "idle"
  /\ HasCache(fetcherBufferType)
  /\ cacheFilled
  /\ DeliverAndTerminate(f, << LoaderEvent("cache", None, None, None, None) >>,
                         "complete")
  /\ FetchCalled(f, "cache")
  /\ UNCHANGED notFetchVars
  /\ UNCHANGED << customLoader, loaderLowLatencyMode, fetcherBufferType, attempts, nbProgress, nbChunks,
                  nbAbort >>

\* The custom loader of the attempt in progress can call its callbacks: it
\* was called for this attempt, whether it has fallen back since or not.
CustomLoaderCalled(f) ==
  /\ fetchStatus[f] = "open"
  /\ loaderState[f].kind = "custom" \/ loaderState[f].hasFallbacked

\* A callback whose guard fails does nothing.
NothingDelivered ==
  /\ requestsSent' = << >>
  /\ UNCHANGED << fetchStatus, sentIds, loaderState, requestsStore, nbRequestBegin,
                  nbRequestEnd, strayProgress, fetchOutput, cacheFilled >>

\* The custom loader calls its `progress` callback.
CustomProgress(f, size, totalSize) ==
  /\ CustomLoaderCalled(f)
  /\ nbProgress[f] < MaxProgress
  /\ nbProgress' = [ nbProgress EXCEPT ![f] = @ + 1 ]
  /\ IF CallbackAllowed(loaderState[f])
       THEN /\ Deliver(f, << LoaderEvent("progress", None, Some(size), totalSize, Some(1)) >>)
            /\ UNCHANGED << fetchStatus, loaderState >>
       ELSE NothingDelivered
  /\ FetchCalled(f, "progress")
  /\ UNCHANGED notFetchVars
  /\ UNCHANGED << customLoader, loaderLowLatencyMode, fetcherBufferType, attempts, nbChunks, nbAbort >>

\* The custom loader calls its `resolve` callback: data, request-end, complete.
CustomResolve(f, size, duration) ==
  /\ CustomLoaderCalled(f)
  /\ IF CallbackAllowed(loaderState[f])
       THEN /\ DeliverAndTerminate(f,
                 << LoaderEvent("data", None, None, None, None),
                    LoaderEvent("request-end", None, size, None, duration) >>,
                 "complete")
            /\ EndAttempt(f, [ loaderState[f] EXCEPT !.hasFinished = TRUE ], FALSE)
       ELSE NothingDelivered /\ UNCHANGED nbAbort
  /\ FetchCalled(f, "resolve")
  /\ UNCHANGED notFetchVars
  /\ UNCHANGED << customLoader, loaderLowLatencyMode, fetcherBufferType, attempts, nbProgress, nbChunks >>

\* The backoff's answer to a failed attempt: a retry (which createSegmentLoader
\* turns into a warning) while attempts are left and the error is retryable.
CanRetry(f, retryable) == retryable /\ attempts[f] < MaxAttempts

\* AttemptFails changed to retry without telling the subscriber.
AttemptFailsSilently(f, retryable) ==
  IF CanRetry(f, retryable)
    THEN /\ fetchStatus' = [ fetchStatus EXCEPT ![f] = "waiting" ]
         /\ loaderState' = [ loaderState EXCEPT ![f] = NoLoader ]
         /\ Deliver(f, << >>)
    ELSE DeliverAndTerminate(f, << >>, "error")

\* A loader attempt fails: the attempt's Observable errors without any
\* "request-end"; the backoff either schedules a retry, which loadData turns
\* into a "warning", or gives up.
AttemptFails(f, retryable) ==
  IF CanRetry(f, retryable)
    THEN /\ fetchStatus' = [ fetchStatus EXCEPT ![f] = "waiting" ]
         /\ loaderState' = [ loaderState EXCEPT ![f] = NoLoader ]
         /\ Deliver(f, << LoaderEvent("warning", None, None, None, None) >>)
    ELSE DeliverAndTerminate(f, << >>, "error")

\* The custom loader calls its `reject` callback.
CustomReject(f, retryable) ==
  /\ CustomLoaderCalled(f)
  /\ IF CallbackAllowed(loaderState[f])
       THEN /\ AttemptFails(f, retryable)
            /\ EndAttempt(f, [ loaderState[f] EXCEPT !.hasFinished = TRUE ], FALSE)
       ELSE NothingDelivered /\ UNCHANGED nbAbort
  /\ FetchCalled(f, "reject")
  /\ UNCHANGED notFetchVars
  /\ UNCHANGED << customLoader, loaderLowLatencyMode, fetcherBufferType, attempts, nbProgress, nbChunks >>

\* The custom loader calls its `fallback` callback: the regular loader is
\* subscribed to and performs its own request.
CustomFallback(f) ==
  /\ fetchStatus[f] = "open"
  /\ loaderState[f].kind = "custom"
  /\ ~loaderState[f].hasFallbacked
  /\ loaderState' = [ loaderState EXCEPT ![f] =
                        [ kind |-> "regular", hasFinished |-> FALSE,
                          hasFallbacked |-> TRUE, requestId |-> Some(attempts[f]),
                          hasAbort |-> loaderState[f].hasAbort ] ]
  /\ Deliver(f, << LoaderEvent("request-begin", Some(attempts[f]), None, None, None) >>)
  /\ FetchCalled(f, "fallback")
  /\ UNCHANGED notFetchVars
  /\ UNCHANGED << customLoader, loaderLowLatencyMode, fetcherBufferType, fetchStatus, attempts, nbProgress,
                  nbChunks, nbAbort >>

\* The regular loader reports the progress of its request.
RegularProgress(f, size, totalSize) ==
  /\ fetchStatus[f] = "open"
  /\ loaderState[f].kind = "regular"
  /\ nbProgress[f] < MaxProgress
  /\ nbProgress' = [ nbProgress EXCEPT ![f] = @ + 1 ]
  /\ Deliver(f, << LoaderEvent("progress", loaderState[f].requestId, Some(size), totalSize, Some(1)) >>)
  /\ FetchCalled(f, "loader")
  /\ UNCHANGED notFetchVars
  /\ UNCHANGED << customLoader, loaderLowLatencyMode, fetcherBufferType, fetchStatus, loaderState, attempts,
                  nbChunks, nbAbort >>

\* The regular loader's request succeeds: data, request-end, complete.
RegularSuccess(f) ==
  /\ fetchStatus[f] = "open"
  /\ loaderState[f].kind = "regular"
  /\ DeliverAndTerminate(f,
       << LoaderEvent("data", None, None, None, None),
          LoaderEvent("request-end", loaderState[f].requestId, Some(100), None, Some(1)) >>,
       "complete")
  /\ EndAttempt(f, loaderState[f], FALSE)
  /\ FetchCalled(f, "loader")
  /\ UNCHANGED notFetchVars
  /\ UNCHANGED << customLoader, loaderLowLatencyMode, fetcherBufferType, attempts, nbProgress, nbChunks >>

\* The low-latency loader has received one more chunk of the segment.
LowLatencyChunk(f) ==
  /\ fetchStatus[f] = "open"
  /\ loaderState[f].kind = "lowLatency"
  /\ nbChunks[f] < MaxChunks
  /\ nbChunks' = [ nbChunks EXCEPT ![f] = @ + 1 ]
  /\ Deliver(f, << LoaderEvent("data-chunk", None, None, None, None),
                   LoaderEvent("progress", None, Some(10), None, Some(1)) >>)
  /\ FetchCalled(f, "loader")
  /\ UNCHANGED notFetchVars
  /\ UNCHANGED << customLoader, loaderLowLatencyMode, fetcherBufferType, fetchStatus, loaderState, attempts,
                  nbProgress, nbAbort >>

\* The low-latency loader's request is over: data-chunk-complete, complete.
LowLatencyComplete(f) ==
  /\ fetchStatus[f] = "open"
  /\ loaderState[f].kind = "lowLatency"
  /\ DeliverAndTerminate(f,
       << LoaderEvent("data-chunk-complete", None, None, None, None) >>,
       "complete")
  /\ EndAttempt(f, loaderState[f], FALSE)
  /\ FetchCalled(f, "loader")
  /\ UNCHANGED notFetchVars
  /\ UNCHANGED << customLoader, loaderLowLatencyMode, fetcherBufferType, attempts, nbProgress, nbChunks >>

\* The built-in loader's request fails.
RegularError(f, retryable) ==
  /\ fetchStatus[f] = "open"
  /\ loaderState[f].kind \in BuiltIn
  /\ AttemptFails(f, retryable)
  /\ EndAttempt(f, loaderState[f], FALSE)
  /\ FetchCalled(f, "loader")
  /\ UNCHANGED notFetchVars
  /\ UNCHANGED << customLoader, loaderLowLatencyMode, fetcherBufferType, attempts, nbProgress, nbChunks >>

\* The backoff's delay has elapsed: the loader is called again.
RetryAttempt(f, hasAbort) ==
  /\ fetchStatus[f] = "waiting"
  /\ StartAttempt(f, hasAbort)
  /\ FetchCalled(f, "retry")
  /\ UNCHANGED notFetchVars
  /\ UNCHANGED << customLoader, loaderLowLatencyMode, fetcherBufferType, nbProgress, nbChunks, nbAbort >>

\* The fetch is unsubscribed from while open or between two attempts.
CancelFetch(f) ==
  /\ fetchStatus[f] \in { "open", "waiting" }
  /\ DeliverAndTerminate(f, << >>, "cancelled")
  /\ EndAttempt(f, loaderState[f], TRUE)
  /\ FetchCalled(f, "cancel")
  /\ UNCHANGED notFetchVars
  /\ UNCHANGED << customLoader, loaderLowLatencyMode, fetcherBufferType, attempts, nbProgress, nbChunks >>

\* The subscription of a fetch that has terminated is unsubscribed from
\* (again): a closed Subscription does nothing.
CancelTerminated(f) ==
  /\ fetchStatus[f] \in { "complete", "error", "cancelled" }
  /\ fetchCall # [ f |-> f, op |-> "cancel" ]
  /\ FetchCalled(f, "cancel")
  /\ UNCHANGED notFetchVars
  /\ UNCHANGED << customLoader, loaderLowLatencyMode, fetcherBufferType, fetchStatus, sentIds, loaderState,
                  attempts, nbProgress, nbChunks, requestsStore, nbRequestBegin,
                  nbRequestEnd, strayProgress, fetchOutput, nbAbort, cacheFilled >>
  /\ requestsSent' = << >>

ProgressSizes == { << 10, Some(100) >>, << 100, Some(100) >>, << 10, None >> }

NextFetch ==
  \E f \in Fetches :
    \/ \E hasAbort \in BOOLEAN : FetchSegment(f, hasAbort)
    \/ FetchSegmentNoUrl(f)
    \/ FetchSegmentFromCache(f)
    \/ \E p \in ProgressSizes : CustomProgress(f, p[1], p[2])
    \/ \E s \in { Some(100), None } : CustomResolve(f, s, IF s = None THEN None ELSE Some(1))
    \/ \E retryable \in BOOLEAN : CustomReject(f, retryable)
    \/ CustomFallback(f)
    \/ \E p \in ProgressSizes : RegularProgress(f, p[1], p[2])
    \/ RegularSuccess(f)
    \/ LowLatencyChunk(f)
    \/ LowLatencyComplete(f)
    \/ \E retryable \in BOOLEAN : RegularError(f, retryable)
    \/ \E hasAbort \in BOOLEAN : RetryAttempt(f, hasAbort)
    \/ CancelFetch(f)
    \/ CancelTerminated(f)


Terminated(f) == fetchStatus[f] \in { "complete", "error", "cancelled" }

\* The ids a given fetchSegment call can send on requests$.
IdsOf(f) == { id \in FetcherIds : id[1] = f }

\* C1: every request id reported on requests$ gets exactly one requestBegin
\* and exactly one requestEnd (never an end without a begin, and as many ends
\* as begins once the fetch has terminated), and every progress carrying that
\* id is sent after its requestBegin and before its requestEnd.
C1_OneBeginOneEndPerId ==
  /\ \A id \in FetcherIds :
       /\ nbRequestBegin[id] <= 1
       /\ nbRequestEnd[id] <= nbRequestBegin[id]
       /\ Terminated(id[1]) => nbRequestEnd[id] = nbRequestBegin[id]
  /\ ~strayProgress

\* C2: once a fetch has terminated (completion, error or cancellation), a
\* requestEnd has been sent for every requestBegin of that fetch and the
\* PendingRequestsStore holds none of its requests.
C2_NoPendingRequestAfterTermination ==
  \A f \in Fetches :
    Terminated(f) =>
      /\ \A id \in IdsOf(f) : nbRequestEnd[id] = nbRequestBegin[id]
      /\ (DOMAIN requestsStore) \cap IdsOf(f) = { }

\* A fetch was cancelled while the custom loader's request and the request of
\* the regular loader it fell back to were both open; both were ended.
C2_Witness ==
  \E f \in Fetches :
    /\ fetchStatus[f] = "cancelled"
    /\ \E r \in RequestIds :
         /\ nbRequestBegin[getFetcherId(f, None)] = 1
         /\ nbRequestEnd[getFetcherId(f, None)] = 1
         /\ nbRequestBegin[getFetcherId(f, Some(r))] = 1
         /\ nbRequestEnd[getFetcherId(f, Some(r))] = 1

\* The chunk and chunk-complete events a fetch has sent, warnings left out.
DataOutput(f) == SelectSeq(fetchOutput[f], LAMBDA e : e.type # "warning")

NbOutput(f, type) ==
  Cardinality({ i \in DOMAIN fetchOutput[f] : fetchOutput[f][i].type = type })

\* C13: a fetch never sends a chunk after a chunk-complete nor more than one
\* chunk-complete; a fetch that has completed has sent, with a chunked
\* transport, chunks (zero or more) followed by exactly one chunk-complete
\* and, with a non-chunked transport, exactly one chunk holding the whole
\* data followed by exactly one chunk-complete.
C13_ChunksThenOneChunkComplete ==
  \A f \in Fetches :
    LET out == DataOutput(f) IN
    /\ NbOutput(f, "chunk-complete") <= 1
    /\ \A i \in DOMAIN out :
         out[i].type = "chunk-complete" => i = Len(out)
    /\ fetchStatus[f] = "complete" =>
         /\ NbOutput(f, "chunk-complete") = 1
         /\ ~loaderLowLatencyMode =>
              out = << FetcherEvent("chunk", FALSE),
                       FetcherEvent("chunk-complete", FALSE) >>

\* A fetch of a chunked transport completed after a failed attempt that had
\* sent a chunk, and a fetch of a non-chunked one completed through the
\* regular loader the custom loader fell back to.
C13_Witness ==
  \/ \E f \in Fetches :
       /\ fetchStatus[f] = "complete"
       /\ loaderLowLatencyMode
       /\ fetchOutput[f] = << FetcherEvent("chunk", TRUE),
                              FetcherEvent("warning", FALSE),
                              FetcherEvent("chunk-complete", FALSE) >>
  \/ \E f \in Fetches :
       /\ fetchStatus[f] = "complete"
       /\ customLoader /\ ~loaderLowLatencyMode
       /\ nbRequestBegin[getFetcherId(f, Some(1))] = 1
       /\ NbOutput(f, "chunk") = 1

\* C14: cancelling a fetch calls the custom loader's abort function once when
\* that loader is in flight (it has neither resolved, rejected nor fallen
\* back) and gave such a function, ends the built-in request once when the
\* built-in loader is in flight (the custom loader having fallen back to it,
\* or no custom loader being used), and aborts nothing when no request is in
\* flight; cancelling a fetch that has terminated changes nothing, and
\* nothing but a cancellation aborts a request.
C14_CancelAbortsRequestInFlightOnce ==
  [][ \A f \in Fetches :
        LET state == loaderState[f]
            customInFlight == /\ fetchStatus[f] = "open"
                              /\ state.kind = "custom"
                              /\ state.hasAbort
            builtInInFlight == /\ fetchStatus[f] = "open"
                               /\ state.kind \in BuiltIn
        IN IF fetchCall'.op = "cancel" /\ fetchCall'.f = f
             THEN /\ nbAbort'[f].custom =
                       nbAbort[f].custom + IF customInFlight THEN 1 ELSE 0
                  /\ nbAbort'[f].regular =
                       nbAbort[f].regular + IF builtInInFlight THEN 1 ELSE 0
                  /\ Terminated(f) =>
                       /\ fetchOutput'[f] = fetchOutput[f]
                       /\ fetchStatus'[f] = fetchStatus[f]
                       /\ requestsStore' = requestsStore
             ELSE nbAbort'[f] = nbAbort[f]
    ]_vars

\* One fetch was cancelled after its custom loader had fallen back (only the
\* built-in request was aborted), another one while its custom loader was in
\* flight (only that loader was aborted), and the latter was cancelled again.
C14_Witness ==
  \E f, g \in Fetches :
    /\ customLoader
    /\ fetchStatus[f] = "cancelled" /\ fetchStatus[g] = "cancelled"
    /\ nbRequestBegin[getFetcherId(f, Some(1))] = 1
    /\ nbAbort[f] = [ custom |-> 0, regular |-> 1 ]
    /\ nbAbort[g] = [ custom |-> 1, regular |-> 0 ]
    /\ fetchCall = [ f |-> g, op |-> "cancel" ]

\* What C15 asks of one step for fetch `f`: an attempt that starts is handed
\* to the custom loader, and the built-in loader starts only by a call of
\* the custom loader's fallback callback.
CustomLoaderFirst(f) ==
  /\ attempts'[f] = attempts[f] + 1 => loaderState'[f].kind = "custom"
  /\ (loaderState'[f].kind \in BuiltIn /\ loaderState[f].kind \notin BuiltIn) =>
       /\ loaderState[f].kind = "custom"
       /\ fetchCall' = [ f |-> f, op |-> "fallback" ]

Delivered(f) ==
  << fetchOutput[f], fetchStatus[f], sentIds[f],
     [ id \in IdsOf(f) |-> << nbRequestBegin[id], nbRequestEnd[id] >> ] >>

\* C16: once the custom loader of an attempt has called fallback(), a call of
\* its resolve, reject or progress callback sends no event and neither
\* completes nor errors the fetch, and whatever the fetch delivers comes from
\* the built-in loader (or from the fetch being unsubscribed from).
C16_NoCustomEventAfterFallback ==
  [][ \A f \in Fetches :
        loaderState[f].hasFallbacked =>
          /\ (fetchCall'.f = f /\ fetchCall'.op \in { "resolve", "reject", "progress" }) =>
               /\ Delivered(f)' = Delivered(f)
               /\ loaderState'[f] = loaderState[f]
               /\ requestsStore' = requestsStore
               /\ strayProgress' = strayProgress
          /\ Delivered(f)' # Delivered(f) =>
               /\ fetchCall'.f = f
               /\ fetchCall'.op \in { "loader", "cancel" }
    ]_vars

\* The custom loader of a fetch called resolve after it had called
\* fallback(), while the built-in loader's request was in flight.
C16_Witness ==
  \E f \in Fetches :
    /\ fetchStatus[f] = "open"
    /\ loaderState[f].hasFallbacked
    /\ fetchCall = [ f |-> f, op |-> "resolve" ]
    /\ fetchOutput[f] = << >>

C34_CacheHitWithoutLoaderNorEvents ==
  [][ /\ cacheFilled' => fetcherBufferType' \in { "audio", "video" }
      /\ (fetchCall' # fetchCall /\ fetchCall'.op = "cache") =>
           LET f == fetchCall'.f IN
           /\ cacheFilled
           /\ fetcherBufferType \in { "audio", "video" }
           /\ fetchOutput'[f] = fetchOutput[f] \o << FetcherEvent("chunk", FALSE),
                                                     FetcherEvent("chunk-complete", FALSE) >>
           /\ fetchStatus'[f] = "complete"
           /\ attempts' = attempts
           /\ loaderState' = loaderState
           /\ requestsSent' = << >>
           /\ requestsStore' = requestsStore
           /\ nbRequestBegin' = nbRequestBegin
           /\ nbRequestEnd' = nbRequestEnd
           /\ strayProgress' = strayProgress ]_vars

\* A fetch has just been served from the cache another fetch of the same
\* fetcher had filled through the loader.
C34_Witness ==
  \E f, g \in Fetches :
    /\ f # g
    /\ fetchCall = [ f |-> f, op |-> "cache" ]
    /\ fetchStatus[f] = "complete"
    /\ fetchOutput[f] = << FetcherEvent("chunk", FALSE),
                           FetcherEvent("chunk-complete", FALSE) >>
    /\ attempts[f] = 0
    /\ attempts[g] >= 1
    /\ fetchStatus[g] = "complete"
    /\ cacheFilled

-----------------------------------------------------------------------------
(***************************************************************************)
(*                          PLAYBACK OBSERVER                              *)
(* Times and positions are in tenths of a second.                          *)
(***************************************************************************)

\* Number of observations modelled (values taken by performance.now()).
MaxNow == 2
\* Largest value the internal-seek counter is driven to.
MaxSeeks == 2

\* The bufferGap of a position that is in no buffered range.
Infinity == 999999

\* config: gaps under which rebuffering starts / over which it ends.
REBUFFERING_GAP(lowLatencyMode) == IF lowLatencyMode THEN 2 ELSE 5
RESUME_GAP_AFTER_SEEKING(lowLatencyMode) == IF lowLatencyMode THEN 5 ELSE 15
RESUME_GAP_AFTER_NOT_ENOUGH_DATA(lowLatencyMode) == IF lowLatencyMode THEN 5 ELSE 15
RESUME_GAP_AFTER_BUFFERING(lowLatencyMode) == IF lowLatencyMode THEN 5 ELSE 15
MINIMUM_BUFFER_AMOUNT_BEFORE_FREEZING == 5

\* The values the environment gives to the media element's attributes.
\* `bufferedAhead` stands for `buffered`: None when currentTime is in no
\* buffered range, else Some(g) when its range ends g after currentTime.
\* The media lasts 10.1 s: at position 10 s a range ending 0.1 s later ends
\* with the media.
MediaDuration == 101
MediaElementValues ==
  [ currentTime   |-> { 0, 100 },
    bufferedAhead |-> { None, Some(1), Some(20) },
    ended         |-> BOOLEAN,
    paused        |-> BOOLEAN,
    playbackRate  |-> { 0, 1 },
    readyState    |-> { 0, 1, 4 },
    seeking       |-> BOOLEAN ]

SCANNED_MEDIA_ELEMENTS_EVENTS ==
  { "canplay", "play", "seeking", "seeked", "loadedmetadata", "ratechange" }

\* A buffered range never ends after the media's duration.
WithinDuration(el) ==
  IF el.bufferedAhead = None THEN TRUE
  ELSE el.currentTime + el.bufferedAhead[1] <= el.duration

\* getMediaInfos(mediaElement, event)
getMediaInfos(el, event) ==
  [ bufferGap    |-> IF el.bufferedAhead # None THEN el.bufferedAhead[1] ELSE Infinity,
    currentRange |-> IF el.bufferedAhead # None
                       THEN Some([ end |-> el.currentTime + el.bufferedAhead[1] ])
                       ELSE None,
    position     |-> el.currentTime,
    duration     |-> el.duration,
    ended        |-> el.ended,
    paused       |-> el.paused,
    playbackRate |-> el.playbackRate,
    readyState   |-> el.readyState,
    seeking      |-> el.seeking,
    event        |-> event ]

\* Mutant of getRebufferingEndGap: any buffered data ends rebuffering.
getRebufferingEndGapZero(rebufferingStatus, lowLatencyMode) == 0

\* getRebufferingEndGap(rebufferingStatus, lowLatencyMode)
getRebufferingEndGap(rebufferingStatus, lowLatencyMode) ==
  IF rebufferingStatus = None THEN 0
  ELSE CASE rebufferingStatus[1].reason \in { "seeking", "internal-seek" } ->
              RESUME_GAP_AFTER_SEEKING(lowLatencyMode)
         [] rebufferingStatus[1].reason = "not-ready" ->
              RESUME_GAP_AFTER_NOT_ENOUGH_DATA(lowLatencyMode)
         [] rebufferingStatus[1].reason = "buffering" ->
              RESUME_GAP_AFTER_BUFFERING(lowLatencyMode)

\* Mutant of hasLoadedUntilTheEnd: the content is never taken as loaded
\* until its end.
hasLoadedUntilTheEndNever(currentRange, duration, lowLatencyMode) == FALSE

\* hasLoadedUntilTheEnd(currentRange, duration, lowLatencyMode)
hasLoadedUntilTheEnd(currentRange, duration, lowLatencyMode) ==
  /\ currentRange # None
  /\ duration - currentRange[1].end <= REBUFFERING_GAP(lowLatencyMode)

\* Mutant of RebufferingReason: the "internal-seek" branch is left out.
RebufferingReasonWithoutInternalSeek(currentInfo, prevRebuffering) ==
  IF \/ currentInfo.event = "seeking"
     \/ (prevRebuffering # None /\ prevRebuffering[1].reason = "seeking")
    THEN "seeking"
  ELSE IF currentInfo.seeking THEN "seeking"
  ELSE IF currentInfo.readyState = 1 THEN "not-ready"
  ELSE "buffering"

\* getRebufferingStatus: the reason given to a rebuffering period.
RebufferingReason(currentInfo, prevRebuffering) ==
  IF \/ currentInfo.event = "seeking"
     \/ (prevRebuffering # None /\ prevRebuffering[1].reason = "seeking")
    THEN "seeking"
  ELSE IF /\ currentInfo.seeking
          /\ \/ currentInfo.event = "internal-seeking"
             \/ (prevRebuffering # None /\ prevRebuffering[1].reason = "internal-seek")
    THEN "internal-seek"
  ELSE IF currentInfo.seeking THEN "seeking"
  ELSE IF currentInfo.readyState = 1 THEN "not-ready"
  ELSE "buffering"

\* getRebufferingStatus(prevObservation, currentInfo, options), `now` being
\* the value of performance.now().
getRebufferingStatus(prevObservation, currentInfo, options, now) ==
  LET currentEvt == currentInfo.event
      currentTime == currentInfo.position
      bufferGap == currentInfo.bufferGap
      paused == currentInfo.paused
      readyState == currentInfo.readyState
      ended == currentInfo.ended
      prevRebuffering == prevObservation.rebuffering
      prevEvt == prevObservation.event
      prevTime == prevObservation.position
      lowLatencyMode == options.lowLatencyMode
      fullyLoaded == hasLoadedUntilTheEnd(currentInfo.currentRange,
                                          currentInfo.duration, lowLatencyMode)
      canSwitchToRebuffering ==
        /\ readyState >= 1
        /\ currentEvt # "loadedmetadata"
        /\ prevRebuffering = None
        /\ ~(fullyLoaded \/ ended)
      rebufferGap == REBUFFERING_GAP(lowLatencyMode)
      resumeGap == getRebufferingEndGap(prevRebuffering, lowLatencyMode)
      \* with a MediaSource
      msShouldRebuffer ==
        canSwitchToRebuffering /\ (bufferGap <= rebufferGap \/ bufferGap = Infinity)
      msShouldStopRebuffer ==
        /\ ~canSwitchToRebuffering
        /\ prevRebuffering # None
        /\ readyState > 1
        /\ (fullyLoaded \/ ended \/ (bufferGap < Infinity /\ bufferGap > resumeGap))
      msRebufferEndPosition ==
        IF canSwitchToRebuffering
          THEN IF bufferGap <= rebufferGap THEN Some(currentTime + bufferGap)
               ELSE IF bufferGap = Infinity THEN Some(currentTime)
               ELSE None
        ELSE IF prevRebuffering # None /\ ~msShouldStopRebuffer
                  /\ (bufferGap = Infinity \/ bufferGap <= resumeGap)
          THEN IF bufferGap = Infinity THEN Some(currentTime)
               ELSE Some(currentTime + bufferGap)
        ELSE None
      \* with a directly-played file
      dfShouldRebuffer ==
        /\ canSwitchToRebuffering
        /\ \/ (~paused /\ currentEvt = "timeupdate" /\ prevEvt = "timeupdate"
                /\ currentTime = prevTime)
           \/ (currentEvt = "seeking" /\ bufferGap = Infinity)
      dfShouldStopRebuffer ==
        /\ ~dfShouldRebuffer
        /\ prevRebuffering # None
        /\ \/ (currentEvt # "seeking" /\ currentTime # prevTime)
           \/ currentEvt = "canplay"
           \/ (bufferGap < Infinity
                /\ (bufferGap > resumeGap \/ fullyLoaded \/ ended))
      shouldRebuffer ==
        IF options.withMediaSource THEN msShouldRebuffer ELSE dfShouldRebuffer
      shouldStopRebuffer ==
        IF options.withMediaSource THEN msShouldStopRebuffer ELSE dfShouldStopRebuffer
      rebufferEndPosition ==
        IF options.withMediaSource THEN msRebufferEndPosition ELSE None
      reason == RebufferingReason(currentInfo, prevRebuffering)
  IN
  IF shouldStopRebuffer THEN None
  ELSE IF shouldRebuffer \/ prevRebuffering # None
    THEN IF prevRebuffering # None /\ prevRebuffering[1].reason = reason
           THEN Some([ reason |-> prevRebuffering[1].reason,
                       timestamp |-> prevRebuffering[1].timestamp,
                       position |-> rebufferEndPosition ])
           ELSE Some([ reason |-> reason,
                       timestamp |-> now,
                       position |-> rebufferEndPosition ])
  ELSE None

\* Mutant of getFreezingStatus: a freeze starts on an observation of any
\* event.
getFreezingStatusAnyEvent(prevObservation, currentInfo, now) ==
  IF prevObservation.freezing # None
    THEN IF \/ currentInfo.ended
            \/ currentInfo.paused
            \/ currentInfo.readyState = 0
            \/ currentInfo.playbackRate = 0
            \/ prevObservation.position # currentInfo.position
           THEN None
           ELSE prevObservation.freezing
  ELSE IF /\ currentInfo.bufferGap > MINIMUM_BUFFER_AMOUNT_BEFORE_FREEZING
          /\ ~currentInfo.ended
          /\ ~currentInfo.paused
          /\ currentInfo.readyState >= 1
          /\ currentInfo.playbackRate # 0
          /\ currentInfo.position = prevObservation.position
    THEN Some([ timestamp |-> now ])
    ELSE None

\* Mutant of getFreezingStatus: an ongoing freeze is given a new start
\* timestamp at each observation.
getFreezingStatusRestarted(prevObservation, currentInfo, now) ==
  IF /\ ~currentInfo.ended
     /\ ~currentInfo.paused
     /\ currentInfo.readyState >= 1
     /\ currentInfo.playbackRate # 0
     /\ currentInfo.position = prevObservation.position
     /\ (prevObservation.freezing # None
          \/ (currentInfo.event = "timeupdate"
               /\ currentInfo.bufferGap > MINIMUM_BUFFER_AMOUNT_BEFORE_FREEZING))
    THEN Some([ timestamp |-> now ])
    ELSE None

\* getFreezingStatus(prevObservation, currentInfo), `now` being the value
\* of performance.now().
getFreezingStatus(prevObservation, currentInfo, now) ==
  IF prevObservation.freezing # None
    THEN IF \/ currentInfo.ended
            \/ currentInfo.paused
            \/ currentInfo.readyState = 0
            \/ currentInfo.playbackRate = 0
            \/ prevObservation.position # currentInfo.position
           THEN None
           ELSE prevObservation.freezing
  ELSE IF /\ currentInfo.event = "timeupdate"
          /\ currentInfo.bufferGap > MINIMUM_BUFFER_AMOUNT_BEFORE_FREEZING
          /\ ~currentInfo.ended
          /\ ~currentInfo.paused
          /\ currentInfo.readyState >= 1
          /\ currentInfo.playbackRate # 0
          /\ currentInfo.position = prevObservation.position
    THEN Some([ timestamp |-> now ])
    ELSE None

\* Mutant of IsInternalSeeking: the counter is not looked at.
IsInternalSeekingAlways(event, counter) == event = "seeking"

\* getCurrentObservation: a "seeking" event is taken as the result of an
\* internal seek while the counter is above 0.
IsInternalSeeking(event, counter) == event = "seeking" /\ counter > 0

\* The PlaybackObserver's constructor, on a media element that has loaded
\* nothing yet.
ObsInit(withMediaSource, lowLatencyMode) ==
  /\ observerOptions = [ withMediaSource |-> withMediaSource,
                         lowLatencyMode |-> lowLatencyMode ]
  /\ mediaElement = [ currentTime |-> 0, bufferedAhead |-> None,
                      duration |-> MediaDuration, ended |-> FALSE,
                      paused |-> TRUE, playbackRate |-> 1, readyState |-> 0,
                      seeking |-> FALSE ]
  /\ internalSeekingEventsIncomingCounter = 0
  /\ lastObservation = [ event |-> "init", position |-> 0,
                         rebuffering |-> None, freezing |-> None ]
  /\ pendingSeek = None
  /\ lastEvent = "init"
  /\ obsNow = 0

\* setCurrentTime(time), first statement: the counter is raised.
SetCurrentTimeBegin(time) ==
  /\ pendingSeek = None
  /\ internalSeekingEventsIncomingCounter < MaxSeeks
  /\ internalSeekingEventsIncomingCounter' = internalSeekingEventsIncomingCounter + 1
  /\ pendingSeek' = Some(time)
  /\ UNCHANGED << observerOptions, mediaElement, lastObservation, lastEvent, obsNow >>
  /\ UNCHANGED notObsVars

\* setCurrentTime(time), second statement: the element's currentTime is set,
\* which starts a seek on an element that has loaded its metadata. The new
\* position is in no buffered range when the range kept would end after the
\* media.
SetCurrentTimeEnd ==
  /\ pendingSeek # None
  /\ mediaElement' =
       [ mediaElement EXCEPT
           !.currentTime = pendingSeek[1],
           !.seeking = (mediaElement.readyState >= 1),
           !.bufferedAhead =
              IF WithinDuration([ mediaElement EXCEPT !.currentTime = pendingSeek[1] ])
                THEN mediaElement.bufferedAhead ELSE None ]
  /\ pendingSeek' = None
  /\ UNCHANGED << observerOptions, internalSeekingEventsIncomingCounter,
                  lastObservation, lastEvent, obsNow >>
  /\ UNCHANGED notObsVars

\* The environment (playback, the user, the buffers) changes one attribute
\* of the media element.
MediaElementChanges(attr, value) ==
  /\ pendingSeek = None
  /\ mediaElement[attr] # value
  /\ WithinDuration([ mediaElement EXCEPT ![attr] = value ])
  /\ mediaElement' = [ mediaElement EXCEPT ![attr] = value ]
  /\ UNCHANGED << observerOptions, internalSeekingEventsIncomingCounter,
                  lastObservation, pendingSeek, lastEvent, obsNow >>
  /\ UNCHANGED notObsVars

\* Mutant of Observe: the rebuffering status is computed as with a
\* MediaSource whatever the mode.
ObserveAsWithMediaSource(event) ==
  LET internal == IsInternalSeeking(event, internalSeekingEventsIncomingCounter)
      tmpEvt == IF internal THEN "internal-seeking" ELSE event
      mediaTimings == getMediaInfos(mediaElement, tmpEvt)
      rebufferingStatus == getRebufferingStatus(lastObservation, mediaTimings,
                             [ observerOptions EXCEPT !.withMediaSource = TRUE ],
                             obsNow)
      freezingStatus == getFreezingStatus(lastObservation, mediaTimings, obsNow)
  IN
  /\ pendingSeek = None
  /\ obsNow < MaxNow
  /\ internalSeekingEventsIncomingCounter' =
       IF internal THEN internalSeekingEventsIncomingCounter - 1
                   ELSE internalSeekingEventsIncomingCounter
  /\ lastObservation' = [ event |-> tmpEvt,
                          position |-> mediaTimings.position,
                          rebuffering |-> rebufferingStatus,
                          freezing |-> freezingStatus ]
  /\ lastEvent' = event
  /\ obsNow' = obsNow + 1
  /\ UNCHANGED << observerOptions, mediaElement, pendingSeek >>
  /\ UNCHANGED notObsVars

\* One emission of the observation Observable: getCurrentObservation(event)
\* and the update of _lastObservation.
Observe(event) ==
  LET internal == IsInternalSeeking(event, internalSeekingEventsIncomingCounter)
      tmpEvt == IF internal THEN "internal-seeking" ELSE event
      mediaTimings == getMediaInfos(mediaElement, tmpEvt)
      rebufferingStatus == getRebufferingStatus(lastObservation, mediaTimings,
                                                observerOptions, obsNow)
      freezingStatus == getFreezingStatus(lastObservation, mediaTimings, obsNow)
  IN
  /\ pendingSeek = None
  /\ obsNow < MaxNow
  /\ internalSeekingEventsIncomingCounter' =
       IF internal THEN internalSeekingEventsIncomingCounter - 1
                   ELSE internalSeekingEventsIncomingCounter
  /\ lastObservation' = [ event |-> tmpEvt,
                          position |-> mediaTimings.position,
                          rebuffering |-> rebufferingStatus,
                          freezing |-> freezingStatus ]
  /\ lastEvent' = event
  /\ obsNow' = obsNow + 1
  /\ UNCHANGED << observerOptions, mediaElement, pendingSeek >>
  /\ UNCHANGED notObsVars

\* The events observations are modelled for: the sampling interval's
\* "timeupdate" and the scanned events the code tells apart ("seeked" standing
\* for "play" and "ratechange", which are never tested).
ObservedEvents ==
  { "timeupdate" } \cup (SCANNED_MEDIA_ELEMENTS_EVENTS \ { "play", "ratechange" })

NextObs ==
  \/ \E time \in MediaElementValues.currentTime : SetCurrentTimeBegin(time)
  \/ SetCurrentTimeEnd
  \/ \E attr \in DOMAIN MediaElementValues :
       \E value \in MediaElementValues[attr] : MediaElementChanges(attr, value)
  \/ \E event \in ObservedEvents : Observe(event)

\* C4: once an observation has a freezing status, every following
\* observation keeps that very status (same start timestamp) unless, at that
\* observation, the position differs from the previous observation's, or the
\* media is paused or ended, or its readyState is 0, or its playbackRate is 0.
C4_FreezingKeptUntilExit ==
  [][ ( /\ obsNow' # obsNow
        /\ lastObservation.freezing # None
        /\ ~ \/ lastObservation'.position # lastObservation.position
             \/ mediaElement.paused
             \/ mediaElement.ended
             \/ mediaElement.readyState = 0
             \/ mediaElement.playbackRate = 0 )
      => lastObservation'.freezing = lastObservation.freezing ]_vars

\* A freeze that began at one observation is still reported, with its start
\* timestamp, after the following observation.
C4_Witness ==
  /\ lastObservation.freezing # None
  /\ lastObservation.freezing[1].timestamp + 2 <= obsNow

\* C5: setCurrentTime raises the counter by one before it sets currentTime;
\* a "seeking" event met with a counter above 0 is reported as
\* "internal-seeking" and lowers the counter by one; met with a counter of 0
\* it is reported as "seeking"; the counter is never negative.
C5_InternalSeekCounter ==
  [][ /\ (pendingSeek = None /\ pendingSeek' # None)
           => /\ internalSeekingEventsIncomingCounter' =
                   internalSeekingEventsIncomingCounter + 1
              /\ mediaElement' = mediaElement
      /\ (pendingSeek # None /\ pendingSeek' = None)
           => /\ internalSeekingEventsIncomingCounter' =
                   internalSeekingEventsIncomingCounter
              /\ mediaElement'.currentTime = pendingSeek[1]
      /\ ( /\ obsNow' # obsNow
           /\ lastEvent' = "seeking"
           /\ internalSeekingEventsIncomingCounter > 0 )
           => /\ lastObservation'.event = "internal-seeking"
              /\ internalSeekingEventsIncomingCounter' =
                   internalSeekingEventsIncomingCounter - 1
      /\ ( /\ obsNow' # obsNow
           /\ lastEvent' = "seeking"
           /\ internalSeekingEventsIncomingCounter = 0 )
           => /\ lastObservation'.event = "seeking"
              /\ internalSeekingEventsIncomingCounter' = 0
      /\ internalSeekingEventsIncomingCounter >= 0
      /\ internalSeekingEventsIncomingCounter' >= 0 ]_vars

\* Two setCurrentTime calls moved the element to a new position and the two
\* "seeking" events that followed were both reported as internal, bringing
\* the counter back to 0.
C5_Witness ==
  /\ obsNow = 2
  /\ lastEvent = "seeking"
  /\ lastObservation.event = "internal-seeking"
  /\ lastObservation.position = 100
  /\ internalSeekingEventsIncomingCounter = 0
  /\ pendingSeek = None

\* C6 (as stated): the observation made for a "seeking" event met with a
\* counter of 1 has the event "internal-seeking" and, when rebuffering starts
\* at that observation, its reason is "internal-seek".
C6_InternalSeekReason ==
  [][ ( /\ obsNow' # obsNow
        /\ lastEvent' = "seeking"
        /\ internalSeekingEventsIncomingCounter = 1 )
      => /\ lastObservation'.event = "internal-seeking"
         /\ (lastObservation.rebuffering = None /\ lastObservation'.rebuffering # None)
              => lastObservation'.rebuffering[1].reason = "internal-seek" ]_vars

\* C6 (amended): the observation made for a "seeking" event met with a
\* counter of 1 has the event "internal-seeking"; when rebuffering starts at
\* that observation its reason is "internal-seek" if the element's `seeking`
\* attribute is still true, and else "not-ready" (readyState 1) or "buffering".
C6_InternalSeekReasonWhileSeeking ==
  [][ ( /\ obsNow' # obsNow
        /\ lastEvent' = "seeking"
        /\ internalSeekingEventsIncomingCounter = 1 )
      => /\ lastObservation'.event = "internal-seeking"
         /\ (lastObservation.rebuffering = None /\ lastObservation'.rebuffering # None)
              => lastObservation'.rebuffering[1].reason =
                   IF mediaElement.seeking THEN "internal-seek"
                   ELSE IF mediaElement.readyState = 1 THEN "not-ready"
                   ELSE "buffering" ]_vars

\* The first observation ever made is the one of an internal seek's "seeking"
\* event, and rebuffering started on it with the reason "internal-seek".
C6_Witness ==
  /\ obsNow = 1
  /\ lastEvent = "seeking"
  /\ lastObservation.event = "internal-seeking"
  /\ internalSeekingEventsIncomingCounter = 0
  /\ lastObservation.rebuffering # None
  /\ lastObservation.rebuffering[1].reason = "internal-seek"

\* The media element's current range ends at most REBUFFERING_GAP before
\* the media's duration.
ElementFullyLoaded ==
  /\ mediaElement.bufferedAhead # None
  /\ mediaElement.duration - (mediaElement.currentTime + mediaElement.bufferedAhead[1])
       <= REBUFFERING_GAP(observerOptions.lowLatencyMode)

\* The media element's bufferGap is infinite or at most REBUFFERING_GAP.
ElementLowOnBuffer ==
  \/ mediaElement.bufferedAhead = None
  \/ mediaElement.bufferedAhead[1] <= REBUFFERING_GAP(observerOptions.lowLatencyMode)

\* C27 (as stated): with a MediaSource, an observation made while not
\* rebuffering gets a rebuffering status whenever readyState >= 1, the content
\* is not fully loaded and bufferGap is infinite or <= REBUFFERING_GAP,
\* whatever the observation's event; it gets none when readyState < 1, or the
\* content is fully loaded, or the finite bufferGap is above REBUFFERING_GAP.
C27_RebufferingStartsWhateverEvent ==
  [][ ( /\ obsNow' # obsNow
        /\ observerOptions.withMediaSource
        /\ lastObservation.rebuffering = None )
      => /\ ( /\ mediaElement.readyState >= 1
              /\ ~ElementFullyLoaded
              /\ ElementLowOnBuffer ) => lastObservation'.rebuffering # None
         /\ ( \/ mediaElement.readyState < 1
              \/ ElementFullyLoaded
              \/ ~ElementLowOnBuffer ) => lastObservation'.rebuffering = None ]_vars

\* C27 (amended): with a MediaSource, an observation made while not
\* rebuffering gets a rebuffering status if and only if readyState >= 1, its
\* event is not "loadedmetadata", the media is not ended, the content is not
\* fully loaded and bufferGap is infinite or <= REBUFFERING_GAP.
C27_RebufferingStartsUnlessLoadedmetadataOrEnded ==
  [][ ( /\ obsNow' # obsNow
        /\ observerOptions.withMediaSource
        /\ lastObservation.rebuffering = None )
      => ( lastObservation'.rebuffering # None
             <=> /\ mediaElement.readyState >= 1
                 /\ lastEvent' # "loadedmetadata"
                 /\ ~mediaElement.ended
                 /\ ~ElementFullyLoaded
                 /\ ElementLowOnBuffer ) ]_vars

\* With a MediaSource, the first observation was made for a "canplay" event
\* on an element with a readyState of 4 whose buffered range ends 0.1 s after
\* the position, far from the media's end: rebuffering started on it.
C27_Witness ==
  /\ observerOptions.withMediaSource
  /\ obsNow = 1
  /\ lastEvent = "canplay"
  /\ mediaElement.readyState = 4
  /\ mediaElement.currentTime = 0
  /\ mediaElement.bufferedAhead = Some(1)
  /\ ~mediaElement.ended
  /\ lastObservation.rebuffering # None
  /\ lastObservation.rebuffering[1].reason = "buffering"

\* The resume gap associated with the reason of the last observation's
\* rebuffering status.
LastResumeGap ==
  LET reason == lastObservation.rebuffering[1].reason
      lowLatencyMode == observerOptions.lowLatencyMode
  IN IF reason \in { "seeking", "internal-seek" }
       THEN RESUME_GAP_AFTER_SEEKING(lowLatencyMode)
     ELSE IF reason = "not-ready"
       THEN RESUME_GAP_AFTER_NOT_ENOUGH_DATA(lowLatencyMode)
     ELSE RESUME_GAP_AFTER_BUFFERING(lowLatencyMode)

\* The media element's bufferGap is finite and above the last resume gap.
ElementRefilled ==
  /\ mediaElement.bufferedAhead # None
  /\ mediaElement.bufferedAhead[1] > LastResumeGap

\* C28 (as stated): with a MediaSource, an observation that follows one with
\* a rebuffering status keeps a rebuffering status while bufferGap is
\* infinite or <= the resume gap of the rebuffering reason, and has none as
\* soon as bufferGap is finite and above that resume gap.
C28_RebufferingKeptUntilRefilled ==
  [][ ( /\ obsNow' # obsNow
        /\ observerOptions.withMediaSource
        /\ lastObservation.rebuffering # None )
      => /\ ~ElementRefilled => lastObservation'.rebuffering # None
         /\ ElementRefilled => lastObservation'.rebuffering = None ]_vars

\* C28 (amended): with a MediaSource, an observation that follows one with a
\* rebuffering status has no rebuffering status if and only if readyState > 1
\* and either the content is fully loaded, or the media is ended, or
\* bufferGap is finite and above the resume gap of the previous rebuffering
\* reason; otherwise it keeps a rebuffering status.
C28_RebufferingKeptUntilReadyAndRefilled ==
  [][ ( /\ obsNow' # obsNow
        /\ observerOptions.withMediaSource
        /\ lastObservation.rebuffering # None )
      => ( lastObservation'.rebuffering = None
             <=> /\ mediaElement.readyState > 1
                 /\ \/ ElementFullyLoaded
                    \/ mediaElement.ended
                    \/ ElementRefilled ) ]_vars

\* With a MediaSource, rebuffering started at the first observation and its
\* status, with its start timestamp, was kept by the second one, made on an
\* element with a readyState of 4 whose buffered range ends 0.1 s after the
\* position.
C28_Witness ==
  /\ observerOptions.withMediaSource
  /\ obsNow = 2
  /\ mediaElement.readyState = 4
  /\ mediaElement.currentTime = 0
  /\ mediaElement.bufferedAhead = Some(1)
  /\ ~mediaElement.ended
  /\ lastObservation.rebuffering # None
  /\ lastObservation.rebuffering[1].timestamp = 0

\* The media element can be playing: it is not paused, not ended, has a
\* readyState of at least 1 and a playbackRate other than 0.
ElementCanPlay ==
  /\ ~mediaElement.paused
  /\ ~mediaElement.ended
  /\ mediaElement.readyState >= 1
  /\ mediaElement.playbackRate # 0

\* The media element's bufferGap (infinite when the position is in no
\* buffered range) is above MINIMUM_BUFFER_AMOUNT_BEFORE_FREEZING.
ElementHasBufferToFreeze ==
  \/ mediaElement.bufferedAhead = None
  \/ mediaElement.bufferedAhead[1] > MINIMUM_BUFFER_AMOUNT_BEFORE_FREEZING

\* C29 (as stated): on every observation after the first, the freezing
\* status is non-null if and only if the position equals the previous
\* observation's, bufferGap > MINIMUM_BUFFER_AMOUNT_BEFORE_FREEZING, and the
\* media is not paused, not ended, with readyState >= 1 and playbackRate # 0.
C29_FreezingIffConditions ==
  [][ ( obsNow' # obsNow /\ obsNow >= 1 )
      => ( lastObservation'.freezing # None
             <=> /\ lastObservation'.position = lastObservation.position
                 /\ ElementHasBufferToFreeze
                 /\ ElementCanPlay ) ]_vars

\* C29 (amended): on every observation, the freezing status is non-null if
\* and only if the position equals the previous observation's, the media is
\* not paused, not ended, with readyState >= 1 and playbackRate # 0, and
\* either the previous observation had a freezing status already, or the
\* observation's event is "timeupdate" and bufferGap >
\* MINIMUM_BUFFER_AMOUNT_BEFORE_FREEZING.
C29_FreezingStartsOnTimeupdateThenKept ==
  [][ obsNow' # obsNow
      => ( lastObservation'.freezing # None
             <=> /\ lastObservation'.position = lastObservation.position
                 /\ ElementCanPlay
                 /\ \/ lastObservation.freezing # None
                    \/ /\ lastEvent' = "timeupdate"
                       /\ ElementHasBufferToFreeze ) ]_vars

\* A freeze began at the first observation; the buffered range then shrank
\* to 0.1 s ahead of the position, under the threshold, and the second
\* observation kept the freezing status.
C29_Witness ==
  /\ obsNow = 2
  /\ lastObservation.freezing # None
  /\ lastObservation.freezing[1].timestamp = 0
  /\ mediaElement.bufferedAhead = Some(1)

-----------------------------------------------------------------------------
(***************************************************************************)
(*                     ABR REPRESENTATION ESTIMATOR                        *)
(* Bitrates are in kbit/s, buffer and live gaps in seconds, scores in      *)
(* tenths, performance.now() in milliseconds.                              *)
(***************************************************************************)

\* Number of times performance.now() is moved forward.
MaxTimeSteps == 2

\* The `representations` argument, sorted by ascending bitrate.
Representations ==
  << [ id |-> 1, bitrate |-> 100 ],
     [ id |-> 2, bitrate |-> 200 ],
     [ id |-> 3, bitrate |-> 400 ] >>

\* The `representations` argument when it holds one Representation only.
OneRepresentation == << [ id |-> 1, bitrate |-> 100 ] >>

\* filterByBitrate: the Representations whose bitrate is not above the
\* ceiling, or the lowest one alone when all are above it.
filterByBitrate(representations, bitrate) ==
  LET kept == SelectSeq(representations, LAMBDA r : r.bitrate <= bitrate) IN
  IF kept = << >> THEN << representations[1] >> ELSE kept

\* getFilteredRepresentations(representations, filters), for a filters
\* object without `width`.
getFilteredRepresentations(representations, filters) ==
  IF filters.bitrate # None
    THEN filterByBitrate(representations, filters.bitrate[1])
    ELSE representations

\* getSuperiorRepresentation(representations, currentRepresentation):
\* None, or Some(the Representation that follows the current one).
getSuperiorRepresentation(representations, currentRep) ==
  LET len == Len(representations)
      found == { i \in 1..len : representations[i].id = currentRep.id }
  IN IF found = { } THEN None
     ELSE LET index == CHOOSE i \in found : \A j \in found : i <= j IN
          IF index = len THEN None ELSE Some(representations[index + 1])

\* selectOptimalRepresentation(representations, optimalBitrate, minBitrate,
\* maxBitrate): among the Representations within [minBitrate, maxBitrate],
\* the highest one not above optimalBitrate, else the lowest of them; the
\* lowest Representation of all when none is within the bounds.
selectOptimalRepresentation(representations, optimalBitrate, minBitrate, maxBitrate) ==
  LET fitting == SelectSeq(representations,
                           LAMBDA r : r.bitrate >= minBitrate /\ r.bitrate <= maxBitrate)
      affordable == SelectSeq(fitting, LAMBDA r : r.bitrate <= optimalBitrate)
  IN IF fitting = << >> THEN representations[1]
     ELSE IF affordable = << >> THEN fitting[1]
     ELSE affordable[Len(affordable)]

\* Mutant of isFinite: an infinite value is taken as finite.
isFiniteAlways(x) == TRUE

\* isFinite(x)
isFinite(x) == x # Infinity

\* Mutant of BlockDuration: "block guesses for 2 minutes", whatever the
\* number of wrong guesses.
BlockDurationTwoMinutes(wrongGuesses) == 120000

\* How long guessing is blocked after a wrong guess:
\* Math.min(consecutiveWrongGuesses * 120000, 360000)
BlockDuration(wrongGuesses) == Min2(wrongGuesses * 120000, 360000)

\* Mutant of StayInGuessMode: the pending requests are not looked at.
StayInGuessModeAlways(requests, currentRep, now) == TRUE

\* The loop over the pending requests of the guessed Representation: the
\* guess cannot stay when an init segment's request lasts for more than a
\* second, when a media segment's request lasts for more than the segment's
\* duration, or when a request's own bandwidth estimate is under the
\* Representation's bitrate.
StayInGuessMode(requests, currentRep, now) ==
  LET guessedRepresentationRequests ==
        SelectSeq(requests, LAMBDA req : req.representation = currentRep.id)
      Fails(req) ==
        LET requestElapsedTime == now - req.requestTimestamp IN
        IF req.isInit THEN requestElapsedTime > 1000
        ELSE IF requestElapsedTime > req.duration * 1000 THEN TRUE
        ELSE req.fastBw # None /\ req.fastBw[1] < currentRep.bitrate
  IN ~ \E i \in DOMAIN guessedRepresentationRequests :
         Fails(guessedRepresentationRequests[i])

\* Mutant of EnableGuessingMode: the buffer gap is not looked at.
EnableGuessingModeAnyBufferGap(clock, scoreData, blockedUntil, now) ==
  /\ now > blockedUntil
  /\ scoreData[1].confidenceLevel = "HIGH"
  /\ scoreData[1].score >= 14 * clock.speed

\* The condition under which a guess is started from the current
\* Representation, and the Representation then guessed.
EnableGuessingMode(clock, scoreData, blockedUntil, now) ==
  /\ isFinite(clock.bufferGap)
  /\ clock.bufferGap >= 6
  /\ now > blockedUntil
  /\ scoreData[1].confidenceLevel = "HIGH"
  /\ scoreData[1].score >= 14 * clock.speed

StartGuess(representations, clock, scoreData, currentRep, blockedUntil, now) ==
  IF scoreData # None /\ EnableGuessingMode(clock, scoreData, blockedUntil, now)
    THEN getSuperiorRepresentation(representations, currentRep)
    ELSE None

\* The guess-mode part of one estimate. `sess` is the state of the auto-mode
\* session; the result holds chosenRepFromGuessMode and the updated counter
\* and blocking time.
GuessMode(representations, clock, currentRep, sess, fromBandwidth, fromBufferSize, scoreData, requests, now) ==
  LET prevRep == sess.prevEstimate.representation
      same == [ chosen |-> None,
                consecutiveWrongGuesses |-> sess.consecutiveWrongGuesses,
                blockGuessingModeUntil |-> sess.blockGuessingModeUntil,
                outcome |-> "none" ]
      start == LET next == StartGuess(representations, clock, scoreData,
                                      currentRep[1], sess.blockGuessingModeUntil, now)
               IN [ same EXCEPT !.chosen = next,
                                !.outcome = IF next # None THEN "started" ELSE "none" ]
  IN
  IF clock.liveGap = None \/ clock.liveGap[1] > 50 THEN same
  ELSE IF currentRep = None \/ prevRep = None THEN same
  ELSE IF fromBufferSize # None /\ fromBufferSize[1].bitrate > prevRep[1].bitrate
    THEN same
  ELSE IF sess.prevEstimate.wasGuessed
    THEN IF \/ (fromBufferSize # None /\ fromBufferSize[1].bitrate = prevRep[1].bitrate)
            \/ fromBandwidth.bitrate >= prevRep[1].bitrate
           THEN [ same EXCEPT !.consecutiveWrongGuesses = 0, !.outcome = "validated" ]
         ELSE IF currentRep[1].id = prevRep[1].id
           THEN IF /\ StayInGuessMode(requests, currentRep[1], now)
                   /\ (scoreData = None \/ scoreData[1].score > 12)
                  THEN [ same EXCEPT !.chosen = currentRep, !.outcome = "continued" ]
                  ELSE [ same EXCEPT
                           !.consecutiveWrongGuesses = sess.consecutiveWrongGuesses + 1,
                           !.blockGuessingModeUntil =
                              now + BlockDuration(sess.consecutiveWrongGuesses + 1),
                           !.outcome = "aborted" ]
         ELSE start
  ELSE start

\* Mutant of AutoEstimate: the buffer-based bitrate is used whether or not
\* buffer-based estimates are allowed.
AutoEstimateBufferBasedAlways(clock, minBitrate, maxBitrate, filters, bufferBased, currentRep, sess, bitrateChosen, scoreData, requests, now) ==
  LET representations == getFilteredRepresentations(abrRepresentations, filters)
      allowBufferBased ==
        IF sess.allowBufferBasedEstimates /\ clock.bufferGap <= 5 THEN FALSE
        ELSE IF /\ ~sess.allowBufferBasedEstimates
                /\ isFinite(clock.bufferGap)
                /\ clock.bufferGap > 10 THEN TRUE
        ELSE sess.allowBufferBasedEstimates
      chosenRepFromBandwidth ==
        selectOptimalRepresentation(representations, bitrateChosen,
                                    minBitrate, maxBitrate)
      chosenRepFromBufferSize ==
        IF /\ bufferBased # None
           /\ chosenRepFromBandwidth.bitrate < bufferBased[1]
          THEN Some(selectOptimalRepresentation(representations, bufferBased[1],
                                                minBitrate, maxBitrate))
          ELSE None
      guess == GuessMode(representations, clock, currentRep, sess,
                         chosenRepFromBandwidth, chosenRepFromBufferSize,
                         scoreData, requests, now)
      chosen == IF guess.chosen # None THEN guess.chosen[1]
                ELSE IF chosenRepFromBufferSize # None THEN chosenRepFromBufferSize[1]
                ELSE chosenRepFromBandwidth
      mode == IF guess.chosen # None THEN "guess"
              ELSE IF chosenRepFromBufferSize # None THEN "buffer"
              ELSE "bandwidth"
  IN [ prevEstimate |-> [ representation |-> Some(chosen),
                          wasGuessed |-> (guess.chosen # None) ],
       allowBufferBasedEstimates |-> allowBufferBased,
       blockGuessingModeUntil |-> guess.blockGuessingModeUntil,
       consecutiveWrongGuesses |-> guess.consecutiveWrongGuesses,
       estimate |-> [ representation |-> chosen, manual |-> FALSE, urgent |-> FALSE,
                      mode |-> mode ],
       fromBandwidth |-> chosenRepFromBandwidth,
       fromBufferSize |-> chosenRepFromBufferSize,
       outcome |-> guess.outcome ]

\* One estimate of the auto mode: the map() applied to the last values of
\* clock$, minAutoBitrate$, maxAutoBitrate$, filters$, bufferBasedEstimation$
\* and currentRepresentation$. `bitrateChosen` is the NetworkAnalyzer's
\* answer, `scoreData` the score calculator's for the current Representation,
\* `requests` the pending requests.
AutoEstimate(clock, minBitrate, maxBitrate, filters, bufferBased, currentRep, sess, bitrateChosen, scoreData, requests, now) ==
  LET representations == getFilteredRepresentations(abrRepresentations, filters)
      allowBufferBased ==
        IF sess.allowBufferBasedEstimates /\ clock.bufferGap <= 5 THEN FALSE
        ELSE IF /\ ~sess.allowBufferBasedEstimates
                /\ isFinite(clock.bufferGap)
                /\ clock.bufferGap > 10 THEN TRUE
        ELSE sess.allowBufferBasedEstimates
      chosenRepFromBandwidth ==
        selectOptimalRepresentation(representations, bitrateChosen,
                                    minBitrate, maxBitrate)
      chosenRepFromBufferSize ==
        IF /\ allowBufferBased
           /\ bufferBased # None
           /\ chosenRepFromBandwidth.bitrate < bufferBased[1]
          THEN Some(selectOptimalRepresentation(representations, bufferBased[1],
                                                minBitrate, maxBitrate))
          ELSE None
      guess == GuessMode(representations, clock, currentRep, sess,
                         chosenRepFromBandwidth, chosenRepFromBufferSize,
                         scoreData, requests, now)
      chosen == IF guess.chosen # None THEN guess.chosen[1]
                ELSE IF chosenRepFromBufferSize # None THEN chosenRepFromBufferSize[1]
                ELSE chosenRepFromBandwidth
      mode == IF guess.chosen # None THEN "guess"
              ELSE IF chosenRepFromBufferSize # None THEN "buffer"
              ELSE "bandwidth"
  IN [ prevEstimate |-> [ representation |-> Some(chosen),
                          wasGuessed |-> (guess.chosen # None) ],
       allowBufferBasedEstimates |-> allowBufferBased,
       blockGuessingModeUntil |-> guess.blockGuessingModeUntil,
       consecutiveWrongGuesses |-> guess.consecutiveWrongGuesses,
       estimate |-> [ representation |-> chosen, manual |-> FALSE, urgent |-> FALSE,
                      mode |-> mode ],
       fromBandwidth |-> chosenRepFromBandwidth,
       fromBufferSize |-> chosenRepFromBufferSize,
       outcome |-> guess.outcome ]

\* Values sent by the estimator's sources.
ClockTicks ==
  { [ bufferGap |-> 3, speed |-> 1, liveGap |-> Some(10) ],
    [ bufferGap |-> 8, speed |-> 1, liveGap |-> Some(10) ],
    [ bufferGap |-> 12, speed |-> 1, liveGap |-> Some(10) ],
    [ bufferGap |-> 8, speed |-> 1, liveGap |-> Some(60) ],
    [ bufferGap |-> 8, speed |-> 1, liveGap |-> None ],
    [ bufferGap |-> Infinity, speed |-> 1, liveGap |-> Some(10) ] }
MinAutoBitrates == { 0, 150 }
MaxAutoBitrates == { 250, Infinity }
FiltersValues == { [ bitrate |-> None ], [ bitrate |-> Some(250) ] }
BufferBasedBitrates == { None, Some(400) }
ManualBitrates == { -1, 50, 400 }
\* Time that passes between two events, in milliseconds.
TimeSteps == { 360001 }

\* Answers of the parts the estimator consults at each estimate.
BitrateChosenValues == { 50, 400 }
ScoreDataValues ==
  { None,
    Some([ score |-> 10, confidenceLevel |-> "HIGH" ]),
    Some([ score |-> 20, confidenceLevel |-> "HIGH" ]),
    Some([ score |-> 20, confidenceLevel |-> "LOW" ]) }
\* Contents of the pending-requests store: nothing; an init segment's request
\* begun more than a second ago; a request for another Representation
\* followed by a media segment's request whose bandwidth is low; an init
\* segment's request just begun whose bandwidth is low.
PendingRequestsSamples(now, currentRep) ==
  LET rid == IF currentRep # None THEN currentRep[1].id ELSE 1 IN
  { << >>,
    << RequestInfo(<< 1 >>, rid, TRUE, now - 1001, 2, None) >>,
    << RequestInfo(<< 1 >>, (rid % 3) + 1, FALSE, now - 2001, 2, None),
       RequestInfo(<< 2 >>, rid, FALSE, now, 2, Some(50)) >>,
    << RequestInfo(<< 1 >>, rid, TRUE, now, 2, Some(50)) >> }

\* Mutant of SingleEstimate: the Representation is read at index 1 of the
\* one-element array, where nothing is.
SingleEstimateOffByOne(representations) ==
  [ representation |-> [ id |-> 0, bitrate |-> 0 ], manual |-> FALSE,
    urgent |-> TRUE, mode |-> "single" ]

\* The only estimate sent when `representations` holds one Representation.
SingleEstimate(representations) ==
  [ representation |-> representations[1], manual |-> FALSE, urgent |-> TRUE,
    mode |-> "single" ]

\* Mutant of ManualEstimate: the manual bitrate is kept within bounds of
\* 150 and 250 kbit/s.
ManualEstimateWithinBounds(representations, bitrate) ==
  [ representation |-> selectOptimalRepresentation(representations, bitrate, 150, 250),
    manual |-> TRUE, urgent |-> TRUE, mode |-> "manual" ]

\* The estimate sent when manualBitrate$ sends a bitrate >= 0.
ManualEstimate(representations, bitrate) ==
  [ representation |-> selectOptimalRepresentation(representations, bitrate, 0, Infinity),
    manual |-> TRUE, urgent |-> TRUE, mode |-> "manual" ]

\* The answers networkAnalyzer.isUrgent can give for a bandwidth- or
\* buffer-based choice: true only for a bitrate under the current one.
UrgentValues(estimate, currentRep) ==
  IF /\ estimate.mode # "guess"
     /\ currentRep # None
     /\ estimate.representation.bitrate < currentRep[1].bitrate
    THEN BOOLEAN
    ELSE { FALSE }

AbrInit(representations) ==
  /\ abrRepresentations = representations
  /\ manualBitrate = -1
  /\ abrClock = [ bufferGap |-> 3, speed |-> 1, liveGap |-> Some(10) ]
  /\ minAutoBitrate = 0
  /\ maxAutoBitrate = Infinity
  /\ abrFilters = [ bitrate |-> None ]
  /\ bufferBasedBitrate = None
  /\ currentRepresentation = None
  /\ prevEstimate = [ representation |-> None, wasGuessed |-> FALSE ]
  /\ allowBufferBasedEstimates = FALSE
  /\ blockGuessingModeUntil = 0
  /\ consecutiveWrongGuesses = 0
  /\ lastEstimate = IF Len(representations) = 1
                      THEN Some(SingleEstimate(representations))
                      ELSE None
  /\ guessOutcome = "none"
  /\ abrNow = 1000
  /\ nbTimeSteps = 0

\* The state of the running auto-mode session.
AbrSession ==
  [ prevEstimate |-> prevEstimate,
    allowBufferBasedEstimates |-> allowBufferBasedEstimates,
    blockGuessingModeUntil |-> blockGuessingModeUntil,
    consecutiveWrongGuesses |-> consecutiveWrongGuesses ]

\* The answers the parts consulted at one estimate can give: the
\* NetworkAnalyzer's bitrate, the score of the current Representation and the
\* pending requests.
EstimateInputs ==
  { [ bitrateChosen |-> bitrateChosen, scoreData |-> scoreData, requests |-> requests ] :
      bitrateChosen \in BitrateChosenValues, scoreData \in ScoreDataValues,
      requests \in PendingRequestsSamples(abrNow, currentRepresentation) }

\* The auto-mode estimate computed now from the given values of the sources.
AutoEstimateNow(clock, minBitrate, maxBitrate, filters, bufferBased, inputs) ==
  AutoEstimate(clock, minBitrate, maxBitrate, filters, bufferBased,
               currentRepresentation, AbrSession, inputs.bitrateChosen,
               inputs.scoreData, inputs.requests, abrNow)

\* combineLatest sends its sources' last values: in auto mode an estimate is
\* computed from them and sent; in manual mode nobody listens.
EmitEstimate(clock, minBitrate, maxBitrate, filters, bufferBased) ==
  IF manualBitrate < 0 /\ Len(abrRepresentations) > 1
    THEN \E r \in { AutoEstimateNow(clock, minBitrate, maxBitrate, filters,
                                     bufferBased, inputs) : inputs \in EstimateInputs } :
              /\ prevEstimate' = r.prevEstimate
              /\ allowBufferBasedEstimates' = r.allowBufferBasedEstimates
              /\ blockGuessingModeUntil' = r.blockGuessingModeUntil
              /\ consecutiveWrongGuesses' = r.consecutiveWrongGuesses
              /\ \E urgent \in UrgentValues(r.estimate, currentRepresentation) :
                   lastEstimate' = Some([ r.estimate EXCEPT !.urgent = urgent ])
              /\ guessOutcome' = r.outcome
    ELSE UNCHANGED << prevEstimate, allowBufferBasedEstimates, blockGuessingModeUntil,
                      consecutiveWrongGuesses, lastEstimate, guessOutcome >>

\* clock$ sends a tick.
ClockTick(tick) ==
  /\ abrClock' = tick
  /\ EmitEstimate(tick, minAutoBitrate, maxAutoBitrate, abrFilters, bufferBasedBitrate)
  /\ UNCHANGED << abrRepresentations, manualBitrate, minAutoBitrate, maxAutoBitrate, abrFilters,
                  bufferBasedBitrate, currentRepresentation, abrNow, nbTimeSteps >>
  /\ UNCHANGED notAbrVars

\* minAutoBitrate$ sends a new value.
MinAutoBitrateChanges(bitrate) ==
  /\ bitrate # minAutoBitrate
  /\ minAutoBitrate' = bitrate
  /\ EmitEstimate(abrClock, bitrate, maxAutoBitrate, abrFilters, bufferBasedBitrate)
  /\ UNCHANGED << abrRepresentations, manualBitrate, abrClock, maxAutoBitrate, abrFilters,
                  bufferBasedBitrate, currentRepresentation, abrNow, nbTimeSteps >>
  /\ UNCHANGED notAbrVars

\* maxAutoBitrate$ sends a new value.
MaxAutoBitrateChanges(bitrate) ==
  /\ bitrate # maxAutoBitrate
  /\ maxAutoBitrate' = bitrate
  /\ EmitEstimate(abrClock, minAutoBitrate, bitrate, abrFilters, bufferBasedBitrate)
  /\ UNCHANGED << abrRepresentations, manualBitrate, abrClock, minAutoBitrate, abrFilters,
                  bufferBasedBitrate, currentRepresentation, abrNow, nbTimeSteps >>
  /\ UNCHANGED notAbrVars

\* filters$ sends a new value.
FiltersChange(filters) ==
  /\ filters # abrFilters
  /\ abrFilters' = filters
  /\ EmitEstimate(abrClock, minAutoBitrate, maxAutoBitrate, filters, bufferBasedBitrate)
  /\ UNCHANGED << abrRepresentations, manualBitrate, abrClock, minAutoBitrate, maxAutoBitrate,
                  bufferBasedBitrate, currentRepresentation, abrNow, nbTimeSteps >>
  /\ UNCHANGED notAbrVars

\* The BufferBasedChooser sends a new bitrate (in auto mode only: it is
\* created with the session).
BufferBasedEstimation(bitrate) ==
  /\ manualBitrate < 0
  /\ Len(abrRepresentations) > 1
  /\ bitrate # bufferBasedBitrate
  /\ bufferBasedBitrate' = bitrate
  /\ EmitEstimate(abrClock, minAutoBitrate, maxAutoBitrate, abrFilters, bitrate)
  /\ UNCHANGED << abrRepresentations, manualBitrate, abrClock, minAutoBitrate, maxAutoBitrate,
                  abrFilters, currentRepresentation, abrNow, nbTimeSteps >>
  /\ UNCHANGED notAbrVars

\* streamEvents$ sends a "representationChange": only the value given to the
\* next estimate changes.
RepresentationChange(representation) ==
  /\ currentRepresentation # Some(representation)
  /\ currentRepresentation' = Some(representation)
  /\ UNCHANGED << abrRepresentations, manualBitrate, abrClock, minAutoBitrate, maxAutoBitrate,
                  abrFilters, bufferBasedBitrate, prevEstimate,
                  allowBufferBasedEstimates, blockGuessingModeUntil,
                  consecutiveWrongGuesses, lastEstimate, guessOutcome, abrNow,
                  nbTimeSteps >>
  /\ UNCHANGED notAbrVars

\* manualBitrate$ sends a value: switchMap drops the running session; a
\* manual estimate is sent at once, or a new auto-mode session starts.
ManualBitrateChanges(bitrate) ==
  /\ bitrate # manualBitrate
  /\ manualBitrate' = bitrate
  /\ IF Len(abrRepresentations) = 1
       THEN UNCHANGED << lastEstimate, prevEstimate, allowBufferBasedEstimates,
                         blockGuessingModeUntil, consecutiveWrongGuesses,
                         bufferBasedBitrate, guessOutcome >>
       ELSE /\ lastEstimate' =
                 IF bitrate >= 0
                   THEN Some(ManualEstimate(abrRepresentations, bitrate))
                   ELSE None
            /\ prevEstimate' = [ representation |-> None, wasGuessed |-> FALSE ]
            /\ allowBufferBasedEstimates' = FALSE
            /\ blockGuessingModeUntil' = 0
            /\ consecutiveWrongGuesses' = 0
            /\ bufferBasedBitrate' = None
            /\ guessOutcome' = "none"
  /\ UNCHANGED << abrRepresentations, abrClock, minAutoBitrate, maxAutoBitrate,
                  abrFilters, currentRepresentation, abrNow, nbTimeSteps >>
  /\ UNCHANGED notAbrVars

\* Time passes.
TimePasses(delta) ==
  /\ nbTimeSteps < MaxTimeSteps
  /\ nbTimeSteps' = nbTimeSteps + 1
  /\ abrNow' = abrNow + delta
  /\ UNCHANGED << abrRepresentations, manualBitrate, abrClock, minAutoBitrate, maxAutoBitrate,
                  abrFilters, bufferBasedBitrate, currentRepresentation,
                  prevEstimate, allowBufferBasedEstimates, blockGuessingModeUntil,
                  consecutiveWrongGuesses, lastEstimate, guessOutcome >>
  /\ UNCHANGED notAbrVars

NextAbr ==
  \/ \E tick \in ClockTicks : ClockTick(tick)
  \/ \E bitrate \in MinAutoBitrates : MinAutoBitrateChanges(bitrate)
  \/ \E bitrate \in MaxAutoBitrates : MaxAutoBitrateChanges(bitrate)
  \/ \E filters \in FiltersValues : FiltersChange(filters)
  \/ \E bitrate \in BufferBasedBitrates : BufferBasedEstimation(bitrate)
  \/ \E i \in DOMAIN abrRepresentations : RepresentationChange(abrRepresentations[i])
  \/ \E bitrate \in ManualBitrates : ManualBitrateChanges(bitrate)
  \/ \E delta \in TimeSteps : TimePasses(delta)

\* C3: in auto mode the Representation of the last estimate, whichever logic
\* chose it, has a bitrate within [minAutoBitrate, maxAutoBitrate]; when no
\* Representation left by the filters is within those bounds, it is the one
\* with the lowest bitrate.
C3_EstimateWithinAutoBitrates ==
  (manualBitrate < 0 /\ lastEstimate # None) =>
    LET representations == getFilteredRepresentations(abrRepresentations, abrFilters)
        chosen == lastEstimate[1].representation
    IN IF \E i \in DOMAIN representations :
            /\ representations[i].bitrate >= minAutoBitrate
            /\ representations[i].bitrate <= maxAutoBitrate
         THEN /\ chosen.bitrate >= minAutoBitrate
              /\ chosen.bitrate <= maxAutoBitrate
         ELSE chosen = abrRepresentations[1]

HighestNotAbove(representations, bitrate) ==
  LET all == { representations[i] : i \in DOMAIN representations }
      below == { r \in all : r.bitrate <= bitrate }
  IN IF below = { }
       THEN CHOOSE r \in all : \A o \in all : r.bitrate <= o.bitrate
       ELSE CHOOSE r \in below : \A o \in below : r.bitrate >= o.bitrate

\* C17: with two Representations or more, as long as the last value of
\* manualBitrate$ is >= 0 the last estimate sent is the manual one: the
\* Representation of the highest bitrate not above that value (the lowest one
\* when there is none), urgent and manual, whatever minAutoBitrate,
\* maxAutoBitrate and the filters are; no auto-mode estimate replaces it.
C17_ManualBitrateEstimate ==
  (Len(abrRepresentations) >= 2 /\ manualBitrate >= 0) =>
    /\ lastEstimate # None
    /\ lastEstimate[1].representation = HighestNotAbove(abrRepresentations, manualBitrate)
    /\ lastEstimate[1].urgent
    /\ lastEstimate[1].manual

\* A manual bitrate of 400 kbit/s is in force with bounds and filters that
\* exclude the 400 kbit/s Representation, and the other sources have spoken
\* since.
C17_Witness ==
  /\ Len(abrRepresentations) >= 2
  /\ manualBitrate = 400
  /\ minAutoBitrate = 150
  /\ maxAutoBitrate = 250
  /\ abrFilters.bitrate = Some(250)
  /\ abrClock.bufferGap = 12
  /\ currentRepresentation # None
  /\ lastEstimate # None
  /\ lastEstimate[1].representation.bitrate = 400

\* C18: an estimator given exactly one Representation has sent an estimate,
\* and the last estimate it sent designates that Representation, whatever
\* manualBitrate$, the bounds, the filters, clock$ and the stream events have
\* sent.
C18_OneRepresentationAlwaysChosen ==
  Len(abrRepresentations) = 1 =>
    /\ lastEstimate # None
    /\ lastEstimate[1].representation = abrRepresentations[1]

\* With one Representation, a manual bitrate, a bitrate filter, bounds, a
\* clock tick and a representationChange have all been received.
C18_Witness ==
  /\ Len(abrRepresentations) = 1
  /\ manualBitrate = 400
  /\ abrFilters.bitrate = Some(250)
  /\ minAutoBitrate = 150
  /\ maxAutoBitrate = 250
  /\ abrClock.bufferGap = 12
  /\ currentRepresentation # None
  /\ lastEstimate = Some(SingleEstimate(abrRepresentations))

\* The values of the sources from which the next auto-mode estimate can be
\* computed: one of clock$, minAutoBitrate$, maxAutoBitrate$, filters$ and
\* bufferBasedEstimation$ sends a value, the others keep their last one.
SourceValues(clock, minBitrate, maxBitrate, filters, bufferBased) ==
  [ clock |-> clock, minBitrate |-> minBitrate, maxBitrate |-> maxBitrate,
    filters |-> filters, bufferBased |-> bufferBased ]

NextSourceValues ==
  { SourceValues(tick, minAutoBitrate, maxAutoBitrate, abrFilters, bufferBasedBitrate) :
      tick \in ClockTicks }
  \cup { SourceValues(abrClock, bitrate, maxAutoBitrate, abrFilters, bufferBasedBitrate) :
           bitrate \in MinAutoBitrates }
  \cup { SourceValues(abrClock, minAutoBitrate, bitrate, abrFilters, bufferBasedBitrate) :
           bitrate \in MaxAutoBitrates }
  \cup { SourceValues(abrClock, minAutoBitrate, maxAutoBitrate, filters, bufferBasedBitrate) :
           filters \in FiltersValues }
  \cup { SourceValues(abrClock, minAutoBitrate, maxAutoBitrate, abrFilters, bitrate) :
           bitrate \in BufferBasedBitrates }

\* The estimate computed from source values `v` and answers `inputs`.
NextEstimate(v, inputs) ==
  AutoEstimateNow(v.clock, v.minBitrate, v.maxBitrate, v.filters, v.bufferBased, inputs)

\* An auto-mode session is running.
AutoMode == manualBitrate < 0 /\ Len(abrRepresentations) > 1

\* The conditions C19 names, for an estimate computed at time `now` from
\* clock sample `clock` and score `scoreData`, guessing being blocked until
\* `blockedUntil`.
GuessConditions(clock, scoreData, blockedUntil, now) ==
  /\ clock.liveGap # None
  /\ clock.liveGap[1] <= 50
  /\ clock.bufferGap # Infinity
  /\ clock.bufferGap >= 6
  /\ scoreData # None
  /\ scoreData[1].confidenceLevel = "HIGH"
  /\ scoreData[1].score >= 14 * clock.speed
  /\ now > blockedUntil

\* C19 as stated: whatever the next event of an auto-mode session is, an
\* estimate chosen by guess mode, be the guess started or continued, is
\* computed from a clock sample with liveGap defined and <= 50 s and
\* bufferGap finite and >= 6 s, from a score of HIGH confidence with
\* score / speed >= 1.4, and after the guessing cooldown.
C19_GuessOnlyUnderConditions ==
  AutoMode =>
    \A v \in NextSourceValues, inputs \in EstimateInputs :
      NextEstimate(v, inputs).estimate.mode = "guess" =>
        GuessConditions(v.clock, inputs.scoreData, blockGuessingModeUntil, abrNow)

\* C19, amended: an estimate chosen by guess mode either starts a guess, and
\* is then computed under the conditions above, or continues the ongoing
\* guess, and is then computed from a clock sample with liveGap defined and
\* <= 50 s, the current Representation being the guessed one and its score
\* being unknown or above 1.2.
C19_GuessStartedOnlyUnderConditions ==
  AutoMode =>
    \A v \in NextSourceValues, inputs \in EstimateInputs :
      \A r \in { NextEstimate(v, inputs) } :
      r.estimate.mode = "guess" =>
        \/ /\ r.outcome = "started"
           /\ GuessConditions(v.clock, inputs.scoreData, blockGuessingModeUntil, abrNow)
        \/ /\ r.outcome = "continued"
           /\ v.clock.liveGap # None
           /\ v.clock.liveGap[1] <= 50
           /\ prevEstimate.wasGuessed
           /\ currentRepresentation = prevEstimate.representation
           /\ r.estimate.representation = prevEstimate.representation[1]
           /\ inputs.scoreData = None \/ inputs.scoreData[1].score > 12

\* A guess has been started, and it has then been continued by an estimate
\* computed from a clock sample whose bufferGap is 3 s.
C19_Witness ==
  /\ AutoMode
  /\ guessOutcome = "continued"
  /\ lastEstimate # None
  /\ lastEstimate[1].mode = "guess"
  /\ abrClock.bufferGap = 3
  /\ prevEstimate.wasGuessed

\* C20: while a guess is ongoing, whatever the next event of the auto-mode
\* session is, an estimate whose buffer-based choice or bandwidth-based
\* choice has a bitrate greater than or equal to the guessed Representation's
\* leaves consecutiveWrongGuesses at 0.
C20_ValidatedGuessResetsCounter ==
  (AutoMode /\ prevEstimate.wasGuessed) =>
    \A v \in NextSourceValues, inputs \in EstimateInputs :
      \A r \in { NextEstimate(v, inputs) } :
        ( \/ /\ r.fromBufferSize # None
             /\ r.fromBufferSize[1].bitrate >= prevEstimate.representation[1].bitrate
          \/ r.fromBandwidth.bitrate >= prevEstimate.representation[1].bitrate )
        => r.consecutiveWrongGuesses = 0

\* C31: within one auto-mode session, allowBufferBasedEstimates becomes
\* true only at an estimate computed from a clock sample whose bufferGap is
\* finite and > 10 s, and false only at one whose bufferGap is <= 5 s; an
\* estimate computed from a sample with a bufferGap in (5 s, 10 s] leaves it
\* as it was; a session starts with it false.
C31_BufferBasedHysteresis ==
  [][ /\ (manualBitrate' = manualBitrate /\ AutoMode)
           => /\ (~allowBufferBasedEstimates /\ allowBufferBasedEstimates')
                   => /\ abrClock'.bufferGap # Infinity
                      /\ abrClock'.bufferGap > 10
              /\ (allowBufferBasedEstimates /\ ~allowBufferBasedEstimates')
                   => abrClock'.bufferGap <= 5
              /\ (abrClock'.bufferGap > 5 /\ abrClock'.bufferGap <= 10)
                   => allowBufferBasedEstimates' = allowBufferBasedEstimates
              /\ allowBufferBasedEstimates' # allowBufferBasedEstimates
                   => lastEstimate' # None
      /\ manualBitrate' # manualBitrate => ~allowBufferBasedEstimates' ]_vars

\* Buffer-based estimates were enabled by a sample with a bufferGap of 12 s
\* and are still enabled after an estimate computed from a sample with a
\* bufferGap of 8 s.
C31_Witness ==
  /\ AutoMode
  /\ allowBufferBasedEstimates
  /\ abrClock.bufferGap = 8
  /\ lastEstimate # None

\* C32: whatever the next event of an auto-mode session is, an estimate
\* not chosen by guess mode designates the Representation selected from the
\* buffer-based bitrate when buffer-based estimates are enabled and that
\* bitrate is strictly greater than the bitrate of the Representation
\* selected from the bandwidth, and the latter Representation otherwise.
C32_BufferBasedTakesPrecedence ==
  AutoMode =>
    \A v \in NextSourceValues, inputs \in EstimateInputs :
      \A r \in { NextEstimate(v, inputs) } :
        LET representations == getFilteredRepresentations(abrRepresentations, v.filters)
            fromBandwidth ==
              selectOptimalRepresentation(representations, inputs.bitrateChosen,
                                          v.minBitrate, v.maxBitrate)
        IN r.estimate.mode # "guess" =>
             r.estimate.representation =
               IF /\ r.allowBufferBasedEstimates
                  /\ v.bufferBased # None
                  /\ v.bufferBased[1] > fromBandwidth.bitrate
                 THEN selectOptimalRepresentation(representations, v.bufferBased[1],
                                                  v.minBitrate, v.maxBitrate)
                 ELSE fromBandwidth

\* Buffer-based estimates are enabled and the last estimate, not a guess,
\* designates the 400 kbit/s Representation selected from the buffer-based
\* bitrate.
C32_Witness ==
  /\ AutoMode
  /\ allowBufferBasedEstimates
  /\ bufferBasedBitrate = Some(400)
  /\ lastEstimate # None
  /\ lastEstimate[1].mode = "buffer"
  /\ lastEstimate[1].representation.bitrate = 400

\* The ongoing guess is validated by the estimate `r`: its buffer-based or
\* its bandwidth-based choice reaches the guessed Representation's bitrate.
GuessValidatedBy(r) ==
  \/ /\ r.fromBufferSize # None
     /\ r.fromBufferSize[1].bitrate >= prevEstimate.representation[1].bitrate
  \/ r.fromBandwidth.bitrate >= prevEstimate.representation[1].bitrate

\* A pending request for the guessed Representation has lasted for more than
\* its segment's duration (more than 1 s for an init segment).
GuessedRequestTooLong(requests) ==
  \E i \in DOMAIN requests :
    /\ requests[i].representation = prevEstimate.representation[1].id
    /\ abrNow - requests[i].requestTimestamp >
         IF requests[i].isInit THEN 1000 ELSE requests[i].duration * 1000

\* A pending request for the guessed Representation, init segments included
\* or not, has a bandwidth under the guessed Representation's bitrate.
GuessedRequestTooSlow(requests, withInit) ==
  \E i \in DOMAIN requests :
    /\ requests[i].representation = prevEstimate.representation[1].id
    /\ withInit \/ ~requests[i].isInit
    /\ requests[i].fastBw # None
    /\ requests[i].fastBw[1] < prevEstimate.representation[1].bitrate

\* The estimate `r` aborts the ongoing guess: it is not chosen by guess mode,
\* the counter of wrong guesses is raised and guessing is blocked.
GuessAbortedBy(r) ==
  /\ r.estimate.mode # "guess"
  /\ r.consecutiveWrongGuesses = consecutiveWrongGuesses + 1
  /\ r.blockGuessingModeUntil =
       abrNow + Min2(r.consecutiveWrongGuesses * 120000, 360000)

\* C33 (as stated): while a guess is ongoing, an estimate that does not
\* validate it and is computed while a pending request for the guessed
\* Representation has lasted for more than its segment's duration (1 s for an
\* init segment), or has a bandwidth under the guessed Representation's
\* bitrate, aborts the guess: it is not chosen by guess mode and the cooldown
\* is applied.
C33_SlowRequestAbortsGuess ==
  (AutoMode /\ prevEstimate.wasGuessed) =>
    \A v \in NextSourceValues, inputs \in EstimateInputs :
      \A r \in { NextEstimate(v, inputs) } :
        ( /\ ~GuessValidatedBy(r)
          /\ \/ GuessedRequestTooLong(inputs.requests)
             \/ GuessedRequestTooSlow(inputs.requests, TRUE) )
        => GuessAbortedBy(r)

\* C33 (amended): while a guess is ongoing, an estimate that does not
\* validate it, computed from a clock sample with liveGap defined and <= 50 s
\* while the current Representation is the guessed one, aborts the guess (not
\* chosen by guess mode, cooldown applied) when a pending request for that
\* Representation has lasted for more than its segment's duration (1 s for an
\* init segment) or when such a request for a media segment has a bandwidth
\* under its bitrate. Computed from a sample with liveGap undefined or > 50 s,
\* the estimate is not chosen by guess mode and no cooldown is applied.
C33_SlowRequestAbortsCurrentGuess ==
  (AutoMode /\ prevEstimate.wasGuessed) =>
    \A v \in NextSourceValues, inputs \in EstimateInputs :
      \A r \in { NextEstimate(v, inputs) } :
        ~GuessValidatedBy(r) =>
          IF v.clock.liveGap = None \/ v.clock.liveGap[1] > 50
            THEN /\ r.estimate.mode # "guess"
                 /\ r.consecutiveWrongGuesses = consecutiveWrongGuesses
                 /\ r.blockGuessingModeUntil = blockGuessingModeUntil
            ELSE ( /\ currentRepresentation = prevEstimate.representation
                   /\ \/ GuessedRequestTooLong(inputs.requests)
                      \/ GuessedRequestTooSlow(inputs.requests, FALSE) )
                 => GuessAbortedBy(r)

\* A guess is ongoing on the current Representation and an estimate computed
\* now, with no score known for that Representation, aborts it for the only
\* reason that one of its pending requests has lasted for too long.
C33_Witness ==
  /\ AutoMode
  /\ prevEstimate.wasGuessed
  /\ currentRepresentation = prevEstimate.representation
  /\ \E v \in NextSourceValues, inputs \in EstimateInputs :
       /\ v.clock.liveGap = Some(10)
       /\ inputs.scoreData = None
       /\ GuessedRequestTooLong(inputs.requests)
       /\ ~GuessValidatedBy(NextEstimate(v, inputs))
       /\ GuessAbortedBy(NextEstimate(v, inputs))

-----------------------------------------------------------------------------
(***************************************************************************)
(*                         TRACK CHOICE MANAGER                            *)
(*                                                                         *)
(* A Period is an object (1, 2, 3) with an id and a start; two objects can *)
(* carry the same id (a Period parsed again).  An Adaptation is named by   *)
(* its id.  `null` and `undefined` are the strings Null and Undefined.     *)
(***************************************************************************)

\* The number of calls made to the manager in one run.
MaxCalls == 3

Null == "null"
Undefined == "undefined"

\* In `videoChoice`: the user never chose a video track for the Period.
Default == "default"

BufferTypes == { "audio", "video", "text" }

\* The Period objects a caller can hand over, with their id and start.
Periods == { 1, 2, 3 }
PeriodId(period) == IF period = 2 THEN "B" ELSE "A"
PeriodStart(period) == IF period = 2 THEN 10 ELSE 0

\* The lists updatePeriodList receives: chronological, one Period per id.
PeriodLists == { << >>, << 1 >>, << 2 >>, << 3 >>, << 1, 2 >>, << 3, 2 >> }

\* What a Period can hold: its supported Adaptations of each type, in order.
PeriodContents ==
  { [ audio |-> << "a1", "a2" >>, video |-> << "v1", "v2" >>, text |-> << "t1" >> ],
    [ audio |-> << "a2" >>,       video |-> << "v2", "v1" >>, text |-> << >> ] }

InitialContents == [ audio |-> << "a1", "a2" >>, video |-> << "v1", "v2" >>, text |-> << "t1" >> ]

\* Period.getSupportedAdaptations(type), on the contents the Periods have.
getSupportedAdaptations(contents, period, type) == contents[period][type]

\* Adaptation.trickModeTracks: only "v1" has a trick-mode track.
trickModeTracks(adaptation) == IF adaptation = "v1" THEN << "vt1" >> ELSE << >>

getRightVideoTrack(adaptation, isTrickModeEnabled) ==
  IF isTrickModeEnabled /\ Len(trickModeTracks(adaptation)) > 0
    THEN trickModeTracks(adaptation)[1]
    ELSE adaptation

\* `adaptations[0] ?? null`
FirstOrNull(adaptations) == IF Len(adaptations) > 0 THEN adaptations[1] ELSE Null

\* `adaptations.some(a => a.id === id)`
SomeHasId(adaptations, id) == \E k \in DOMAIN adaptations : adaptations[k] = id

generatePeriodInfo(contents, trickEnabled, period, inManifest) ==
  LET audioAdaptation == FirstOrNull(getSupportedAdaptations(contents, period, "audio"))
      textAdaptation == FirstOrNull(getSupportedAdaptations(contents, period, "text"))
      baseVideoAdaptation == FirstOrNull(getSupportedAdaptations(contents, period, "video"))
      videoAdaptation == getRightVideoTrack(baseVideoAdaptation, trickEnabled)
  IN [ period |-> period,
       inManifest |-> inManifest,
       audio |-> [ wantedTrack |-> audioAdaptation,
                   lastEmittedTrack |-> Undefined,
                   subject |-> FALSE ],
       video |-> [ wantedTrack |-> videoAdaptation,
                   wantedTrackBase |-> baseVideoAdaptation,
                   lastEmittedTrack |-> Undefined,
                   subject |-> FALSE ],
       text |-> [ wantedTrack |-> textAdaptation,
                  lastEmittedTrack |-> Undefined,
                  subject |-> FALSE ] ]

isPeriodItemRemovable(periodItem) ==
  /\ ~periodItem.inManifest
  /\ ~periodItem.text.subject
  /\ ~periodItem.audio.subject
  /\ ~periodItem.video.subject

\* Index of the first record whose Period has the given id, 0 when none.
IndexOfPeriodId(periods, periodId) ==
  LET found == { k \in DOMAIN periods : PeriodId(periods[k].period) = periodId }
  IN IF found = { } THEN 0 ELSE CHOOSE k \in found : \A l \in found : k <= l

findPeriodIndex(periods, period) == IndexOfPeriodId(periods, PeriodId(period))

\* getPeriodItem changed to give the first record when none has the id.
getPeriodItemOrFirst(periods, periodId) ==
  IF IndexOfPeriodId(periods, periodId) = 0 /\ Len(periods) > 0
    THEN 1
    ELSE IndexOfPeriodId(periods, periodId)

\* Gives the index of the record rather than the record; 0 for `undefined`.
getPeriodItem(periods, periodId) == IndexOfPeriodId(periods, periodId)

\* `array.splice(index, 0, item)`
SpliceIn(seq, index, item) ==
  [ k \in 1..(Len(seq) + 1) |->
      IF k < index THEN seq[k] ELSE IF k = index THEN item ELSE seq[k - 1] ]

\* The branch of updatePeriodList taken once the new list is exhausted: the
\* records from index i on are marked and the removable ones are spliced out.
RemoveRemainingOldPeriods(st, i) ==
  LET marked == [ k \in DOMAIN st |->
                    IF k >= i THEN [ st[k] EXCEPT !.inManifest = FALSE ] ELSE st[k] ]
  IN SubSeq(marked, 1, i - 1)
       \o SelectSeq(SubSeq(marked, i, Len(marked)),
                    LAMBDA item : ~isPeriodItemRemovable(item))

\* `oldAdaptation !== null && !stillHere` for one type of a matched record.
NotAvailableAnymore(contents, periodItem, type) ==
  /\ periodItem[type].wantedTrack # Null
  /\ ~SomeHasId(getSupportedAdaptations(contents, periodItem.period, type),
                periodItem[type].wantedTrack)

\* The matched branch of updatePeriodList, for text, video then audio.
CheckWantedTracks(contents, trickEnabled, periodItem) ==
  LET adaptations(type) == getSupportedAdaptations(contents, periodItem.period, type)
      chosenBaseTrack == FirstOrNull(adaptations("video"))
  IN [ periodItem EXCEPT
         !.text = IF NotAvailableAnymore(contents, periodItem, "text")
                    THEN [ @ EXCEPT !.wantedTrack = FirstOrNull(adaptations("text")) ]
                    ELSE @,
         !.video = IF NotAvailableAnymore(contents, periodItem, "video")
                     THEN [ @ EXCEPT !.wantedTrackBase = chosenBaseTrack,
                                     !.wantedTrack =
                                       IF chosenBaseTrack = Null
                                         THEN Null
                                         ELSE getRightVideoTrack(chosenBaseTrack, trickEnabled) ]
                     ELSE @,
         !.audio = IF NotAvailableAnymore(contents, periodItem, "audio")
                     THEN [ @ EXCEPT !.wantedTrack = FirstOrNull(adaptations("audio")) ]
                     ELSE @ ]

\* What the matched branch pushes to `updatedTracks`, in the order pushed.
UpdatedTracksOf(contents, periodItem) ==
  LET types == SelectSeq(<< "text", "video", "audio" >>,
                         LAMBDA type : NotAvailableAnymore(contents, periodItem, type))
  IN [ k \in DOMAIN types |-> [ period |-> periodItem.period, type |-> types[k] ] ]

\* The `for` loop of updatePeriodList; i and newPListIdx count from 1.
RECURSIVE UpdateLoop(_, _, _, _, _, _, _)
UpdateLoop(contents, trickEnabled, periods, st, i, newPListIdx, updatedTracks) ==
  IF i > Len(st)
    THEN [ store |-> st, newPListIdx |-> newPListIdx, updatedTracks |-> updatedTracks ]
  ELSE IF newPListIdx > Len(periods)
    THEN UpdateLoop(contents, trickEnabled, periods, RemoveRemainingOldPeriods(st, i),
                    i + 1, newPListIdx, updatedTracks)
  ELSE IF st[i].period = periods[newPListIdx]
    THEN UpdateLoop(contents, trickEnabled, periods,
                    [ st EXCEPT ![i] = CheckWantedTracks(contents, trickEnabled, st[i]) ],
                    i + 1, newPListIdx + 1,
                    updatedTracks \o UpdatedTracksOf(contents, st[i]))
  ELSE IF PeriodStart(st[i].period) <= PeriodStart(periods[newPListIdx])
    THEN LET marked == [ st EXCEPT ![i].inManifest = FALSE ]
         IN IF isPeriodItemRemovable(marked[i])
              THEN UpdateLoop(contents, trickEnabled, periods, Splice1(marked, i),
                              i, newPListIdx, updatedTracks)
              ELSE UpdateLoop(contents, trickEnabled, periods, marked,
                              i + 1, newPListIdx, updatedTracks)
  ELSE UpdateLoop(contents, trickEnabled, periods,
                  SpliceIn(st, i, generatePeriodInfo(contents, trickEnabled,
                                                     periods[newPListIdx], TRUE)),
                  i + 1, newPListIdx + 1, updatedTracks)

\* One `subject.next(track)` of the manager.
Emission(period, type, track) == [ period |-> period, type |-> type, track |-> track ]

\* Whether the last loop of updatePeriodList sends the wanted track of a type.
ToEmitAfterUpdate(periodItem, type, updatedTracks) ==
  /\ SomeHasId(updatedTracks, [ period |-> periodItem.period, type |-> type ])
  /\ periodItem[type].subject
  /\ periodItem[type].lastEmittedTrack # periodItem[type].wantedTrack

\* `track.lastEmittedTrack = track.wantedTrack` for the tracks to emit.
MarkEmitted(periodItem, type, toEmit) ==
  IF toEmit THEN [ periodItem[type] EXCEPT !.lastEmittedTrack = periodItem[type].wantedTrack ]
            ELSE periodItem[type]

\* The whole of updatePeriodList: the new store and what is sent to subjects.
updatePeriodList(contents, trickEnabled, st, periods) ==
  LET looped == UpdateLoop(contents, trickEnabled, periods, st, 1, 1, << >>)
      periodsToAdd == [ k \in 1..(Len(periods) + 1 - looped.newPListIdx) |->
                          generatePeriodInfo(contents, trickEnabled,
                                             periods[looped.newPListIdx + k - 1], TRUE) ]
      merged == looped.store \o periodsToAdd
      toEmit(item, type) == ToEmitAfterUpdate(item, type, looped.updatedTracks)
      holder(track) == merged[CHOOSE k \in DOMAIN merged : merged[k].period = track.period]
      emitting == SelectSeq(looped.updatedTracks,
                            LAMBDA track : toEmit(holder(track), track.type))
  IN [ store |-> [ k \in DOMAIN merged |->
                     [ merged[k] EXCEPT
                         !.audio = MarkEmitted(merged[k], "audio", toEmit(merged[k], "audio")),
                         !.video = MarkEmitted(merged[k], "video", toEmit(merged[k], "video")),
                         !.text = MarkEmitted(merged[k], "text", toEmit(merged[k], "text")) ] ],
       nexted |-> [ k \in DOMAIN emitting |->
                      Emission(emitting[k].period, emitting[k].type,
                               holder(emitting[k])[emitting[k].type].wantedTrack) ] ]

\* _insertNonManifestPeriodInStore: the index the new record is put at.
InsertionIndex(st, period) ==
  LET later == { k \in DOMAIN st : PeriodStart(st[k].period) > PeriodStart(period) }
  IN IF later = { } THEN Len(st) + 1 ELSE CHOOSE k \in later : \A l \in later : k <= l

\* _resetVideoTrackChoices, on one record: the choice, then the emission.
ResetVideoTrackChoice(periodItem, trickEnabled) ==
  LET chosenBaseTrack == periodItem.video.wantedTrackBase
      chosenTrack == IF chosenBaseTrack # Null
                       THEN getRightVideoTrack(chosenBaseTrack, trickEnabled)
                       ELSE Null
      toEmit == periodItem.video.lastEmittedTrack # chosenTrack /\ periodItem.video.subject
  IN [ periodItem EXCEPT
         !.video.wantedTrack = chosenTrack,
         !.video.lastEmittedTrack = IF toEmit THEN chosenTrack ELSE @ ]

ResetVideoEmissions(st, trickEnabled) ==
  LET emitting == SelectSeq(st, LAMBDA item :
                     /\ item.video.subject
                     /\ item.video.lastEmittedTrack
                          # ResetVideoTrackChoice(item, trickEnabled).video.wantedTrack)
  IN [ k \in DOMAIN emitting |->
         Emission(emitting[k].period, "video",
                  ResetVideoTrackChoice(emitting[k], trickEnabled).video.wantedTrack) ]

Call(op, periods) == [ op |-> op, periods |-> periods ]

\* One more call to the manager.
Called ==
  /\ nbCalls < MaxCalls
  /\ nbCalls' = nbCalls + 1

\* A call that takes no Period id, returns nothing and does not throw.
PlainCall ==
  /\ unknownPeriodCall' = "none"
  /\ threw' = FALSE
  /\ returned' = Undefined

\* A call of the method `op` with a Period id: whether a record has that id.
CallWithPeriodId(op, periodId) ==
  unknownPeriodCall' = IF IndexOfPeriodId(tcmStore, periodId) = 0 THEN op ELSE "none"

TcmInit(preferTrickModeTracks) ==
  /\ tcmStore = << >>
  /\ trickModeTrackEnabled = preferTrickModeTracks
  /\ periodContents = [ p \in Periods |-> InitialContents ]
  /\ subscribers = { }
  /\ absentPeriods = { }
  /\ lastCall = Call("constructor", << >>)
  /\ nexted = << >>
  /\ nbCalls = 0
  /\ videoChoice = [ p \in Periods |-> Default ]
  /\ unknownPeriodCall = "none"
  /\ threw = FALSE
  /\ returned = Undefined

StoredPeriods(st) == { st[k].period : k \in DOMAIN st }

\* The user's video choices that remain once the store is `st` and the Periods
\* hold `contents`: the choice of a Period that left the store, or whose
\* chosen Adaptation the Period does not support anymore, is forgotten.
KeptChoices(choice, st, contents) ==
  [ p \in Periods |->
      IF p \notin StoredPeriods(st) THEN Default
      ELSE IF choice[p] \notin { Default, Null }
              /\ ~SomeHasId(getSupportedAdaptations(contents, p, "video"), choice[p])
        THEN Default
      ELSE choice[p] ]

\* updatePeriodList(periods), called once the Manifest has replaced the
\* contents of the Periods it lists.
UpdatePeriodList(periods, contents) ==
  /\ \A p \in Periods \ { periods[k] : k \in DOMAIN periods } :
       contents[p] = periodContents[p]
  /\ \E r \in { updatePeriodList(contents, trickModeTrackEnabled, tcmStore, periods) } :
       /\ tcmStore' = r.store
       /\ nexted' = r.nexted
       /\ absentPeriods' = ((absentPeriods \cup StoredPeriods(tcmStore))
                              \ { periods[k] : k \in DOMAIN periods })
                           \cap StoredPeriods(r.store)
       /\ videoChoice' = KeptChoices(videoChoice, r.store, contents)
  /\ periodContents' = contents
  /\ Called
  /\ PlainCall
  /\ lastCall' = Call("updatePeriodList", periods)
  /\ UNCHANGED << trickModeTrackEnabled, subscribers >>
  /\ UNCHANGED notTcmVars

AddTrackChoiceSubject(bufferType, period) ==
  /\ LET index == getPeriodItem(tcmStore, PeriodId(period))
     IN IF index = 0
          THEN LET periodInfo == generatePeriodInfo(periodContents, trickModeTrackEnabled,
                                                    period, FALSE)
                   choice == periodInfo[bufferType].wantedTrack
               IN /\ tcmStore' = SpliceIn(tcmStore, InsertionIndex(tcmStore, period),
                                       [ periodInfo EXCEPT ![bufferType].lastEmittedTrack = choice ])
                  /\ nexted' = << Emission(period, bufferType, choice) >>
                  /\ subscribers' = subscribers \cup { << bufferType, PeriodId(period) >> }
        ELSE IF tcmStore[index][bufferType].subject
          THEN /\ nexted' = << >>
               /\ UNCHANGED << tcmStore, subscribers >>
        ELSE LET choice == tcmStore[index][bufferType].wantedTrack
             IN /\ tcmStore' = [ tcmStore EXCEPT ![index][bufferType].subject = TRUE,
                                            ![index][bufferType].lastEmittedTrack = choice ]
                /\ nexted' = << Emission(tcmStore[index].period, bufferType, choice) >>
                /\ subscribers' = subscribers \cup { << bufferType, PeriodId(period) >> }
  /\ absentPeriods' = absentPeriods \cap StoredPeriods(tcmStore')
  /\ videoChoice' = KeptChoices(videoChoice, tcmStore', periodContents)
  /\ Called
  /\ PlainCall
  /\ lastCall' = Call("other", << >>)
  /\ UNCHANGED << trickModeTrackEnabled, periodContents >>
  /\ UNCHANGED notTcmVars

RemoveTrackChoiceSubject(bufferType, period) ==
  /\ LET periodIndex == findPeriodIndex(tcmStore, period)
     IN IF periodIndex = 0 \/ ~tcmStore[periodIndex][bufferType].subject
          THEN UNCHANGED tcmStore
          ELSE LET cleared == [ tcmStore EXCEPT
                                  ![periodIndex][bufferType].subject = FALSE,
                                  ![periodIndex][bufferType].lastEmittedTrack = Undefined ]
               IN tcmStore' = IF isPeriodItemRemovable(cleared[periodIndex])
                             THEN Splice1(cleared, periodIndex)
                             ELSE cleared
  /\ subscribers' = subscribers \ { << bufferType, PeriodId(period) >> }
  /\ absentPeriods' = absentPeriods \cap StoredPeriods(tcmStore')
  /\ videoChoice' = KeptChoices(videoChoice, tcmStore', periodContents)
  /\ nexted' = << >>
  /\ Called
  /\ PlainCall
  /\ lastCall' = Call("other", << >>)
  /\ UNCHANGED << trickModeTrackEnabled, periodContents >>
  /\ UNCHANGED notTcmVars

ResetSubjects ==
  /\ tcmStore' = [ k \in DOMAIN tcmStore |->
                  [ tcmStore[k] EXCEPT !.audio.subject = FALSE,
                                    !.video.subject = FALSE,
                                    !.text.subject = FALSE ] ]
  /\ subscribers' = { }
  /\ nexted' = << >>
  /\ Called
  /\ PlainCall
  /\ lastCall' = Call("other", << >>)
  /\ UNCHANGED << trickModeTrackEnabled, periodContents, absentPeriods, videoChoice >>
  /\ UNCHANGED notTcmVars

PeriodIds == { PeriodId(p) : p \in Periods }
AdaptationIds(bufferType) ==
  IF bufferType = "audio" THEN { "a1", "a2" }
  ELSE IF bufferType = "video" THEN { "v1", "v2" }
  ELSE { "t1" }

\* setAudioTrackByID, setTextTrackByID, setVideoTrackByID.  An unknown Period
\* returns and an unknown Adaptation throws, both before anything is written.
SetTrackById(periodId, bufferType, wantedId) ==
  /\ LET index == getPeriodItem(tcmStore, periodId)
     IN IF index = 0
          THEN /\ nexted' = << >>
               /\ threw' = FALSE
               /\ UNCHANGED << tcmStore, videoChoice >>
        ELSE IF ~SomeHasId(getSupportedAdaptations(periodContents, tcmStore[index].period,
                                                   bufferType), wantedId)
          THEN /\ nexted' = << >>
               /\ threw' = TRUE
               /\ UNCHANGED << tcmStore, videoChoice >>
        ELSE LET withBase == IF bufferType = "video"
                               THEN [ tcmStore EXCEPT ![index].video.wantedTrackBase = wantedId ]
                               ELSE tcmStore
                 newAdaptation == IF bufferType = "video"
                                    THEN getRightVideoTrack(wantedId, trickModeTrackEnabled)
                                    ELSE wantedId
                 typeInfo == withBase[index][bufferType]
             IN /\ threw' = FALSE
                /\ videoChoice' = IF bufferType = "video"
                                    THEN [ videoChoice EXCEPT ![tcmStore[index].period] = wantedId ]
                                    ELSE videoChoice
                /\ IF typeInfo.wantedTrack = newAdaptation
                  THEN /\ tcmStore' = withBase
                       /\ nexted' = << >>
                  ELSE /\ tcmStore' = [ withBase EXCEPT
                                       ![index][bufferType].wantedTrack = newAdaptation,
                                       ![index][bufferType].lastEmittedTrack =
                                         IF typeInfo.subject THEN newAdaptation ELSE @ ]
                       /\ nexted' = IF typeInfo.subject
                                      THEN << Emission(tcmStore[index].period, bufferType,
                                                       newAdaptation) >>
                                      ELSE << >>
  /\ Called
  /\ CallWithPeriodId("setTrackById", periodId)
  /\ returned' = Undefined
  /\ lastCall' = Call("other", << >>)
  /\ UNCHANGED << trickModeTrackEnabled, periodContents, subscribers, absentPeriods >>
  /\ UNCHANGED notTcmVars

\* disableAudioTrack, disableTextTrack, disableVideoTrack.
DisableTrack(periodId, bufferType) ==
  /\ LET index == getPeriodItem(tcmStore, periodId)
     IN IF index = 0
          THEN /\ nexted' = << >>
               /\ UNCHANGED << tcmStore, videoChoice >>
          ELSE LET first == IF bufferType = "video"
                              THEN [ tcmStore EXCEPT ![index].video.wantedTrack = Null ]
                              ELSE tcmStore
                   trackInfo == first[index][bufferType]
               IN /\ videoChoice' = IF bufferType = "video"
                                      THEN [ videoChoice EXCEPT ![tcmStore[index].period] = Null ]
                                      ELSE videoChoice
                  /\ IF trackInfo.wantedTrack = Null
                    THEN /\ tcmStore' = first
                         /\ nexted' = << >>
                    ELSE /\ tcmStore' = [ first EXCEPT
                                         ![index][bufferType].wantedTrack = Null,
                                         ![index][bufferType].lastEmittedTrack =
                                           IF trackInfo.subject THEN Null ELSE @ ]
                         /\ nexted' = IF trackInfo.subject
                                        THEN << Emission(tcmStore[index].period, bufferType, Null) >>
                                        ELSE << >>
  /\ Called
  /\ CallWithPeriodId("disableTrack", periodId)
  /\ threw' = FALSE
  /\ returned' = Undefined
  /\ lastCall' = Call("other", << >>)
  /\ UNCHANGED << trickModeTrackEnabled, periodContents, subscribers, absentPeriods >>
  /\ UNCHANGED notTcmVars

\* The `id` of what getChosenAudioTrack, getChosenTextTrack and
\* getChosenVideoTrack return, Undefined or Null when they return that: the
\* three read `chosenTrack` from the record, getChosenVideoTrack from its
\* `text` field.
getChosenTrackId(st, periodId, bufferType) ==
  LET index == getPeriodItem(st, periodId)
      chosenTrack == IF bufferType = "video" THEN st[index].text.wantedTrack
                                             ELSE st[index][bufferType].wantedTrack
  IN IF index = 0 THEN Undefined ELSE chosenTrack

\* What getChosenAudioTrack, getChosenTextTrack and getChosenVideoTrack
\* return: undefined, null, or the formatted track (its id and, for video, its
\* trick-mode tracks).
getChosenTrack(st, periodId, bufferType) ==
  LET chosenTrack == getChosenTrackId(st, periodId, bufferType)
  IN IF chosenTrack = Undefined THEN Undefined
     ELSE IF chosenTrack = Null THEN Null
     ELSE IF bufferType = "video"
       THEN [ id |-> chosenTrack, trickModeTracks |-> trickModeTracks(chosenTrack) ]
     ELSE [ id |-> chosenTrack ]

\* What getAvailableAudioTracks, getAvailableTextTracks and
\* getAvailableVideoTracks return: one item per supported Adaptation.
getAvailableTracks(st, contents, periodId, bufferType) ==
  LET index == getPeriodItem(st, periodId)
      currentId == st[index][bufferType].wantedTrack
      adaptations == getSupportedAdaptations(contents, st[index].period, bufferType)
      active(id) == currentId # Null /\ currentId = id
      trickItems(id) == [ k \in DOMAIN trickModeTracks(id) |->
                            [ id |-> trickModeTracks(id)[k],
                              active |-> active(trickModeTracks(id)[k]) ] ]
  IN IF index = 0 THEN << >>
     ELSE [ k \in DOMAIN adaptations |->
              IF bufferType = "video"
                THEN [ id |-> adaptations[k], active |-> active(adaptations[k]),
                       trickModeTracks |-> trickItems(adaptations[k]) ]
                ELSE [ id |-> adaptations[k], active |-> active(adaptations[k]) ] ]

GetChosenTrack(periodId, bufferType) ==
  /\ returned' = getChosenTrack(tcmStore, periodId, bufferType)
  /\ CallWithPeriodId("getChosenTrack", periodId)
  /\ threw' = FALSE
  /\ nexted' = << >>
  /\ Called
  /\ lastCall' = Call("other", << >>)
  /\ UNCHANGED << tcmStore, trickModeTrackEnabled, periodContents, subscribers,
                  absentPeriods, videoChoice >>
  /\ UNCHANGED notTcmVars

GetAvailableTracks(periodId, bufferType) ==
  /\ returned' = getAvailableTracks(tcmStore, periodContents, periodId, bufferType)
  /\ CallWithPeriodId("getAvailableTracks", periodId)
  /\ threw' = FALSE
  /\ nexted' = << >>
  /\ Called
  /\ lastCall' = Call("other", << >>)
  /\ UNCHANGED << tcmStore, trickModeTrackEnabled, periodContents, subscribers,
                  absentPeriods, videoChoice >>
  /\ UNCHANGED notTcmVars

\* enableVideoTrickModeTracks (enabled = TRUE), disableVideoTrickModeTracks
\* (enabled = FALSE): nothing is done when the flag already has that value.
SetVideoTrickModeTracks(enabled) ==
  /\ trickModeTrackEnabled # enabled
  /\ trickModeTrackEnabled' = enabled
  /\ tcmStore' = [ k \in DOMAIN tcmStore |-> ResetVideoTrackChoice(tcmStore[k], enabled) ]
  /\ nexted' = ResetVideoEmissions(tcmStore, enabled)
  /\ Called
  /\ PlainCall
  /\ lastCall' = Call("other", << >>)
  /\ UNCHANGED << periodContents, subscribers, absentPeriods, videoChoice >>
  /\ UNCHANGED notTcmVars

NextTcm ==
  \/ \E periods \in PeriodLists, contents \in [ Periods -> PeriodContents ] :
       UpdatePeriodList(periods, contents)
  \/ \E bufferType \in BufferTypes, period \in Periods :
       AddTrackChoiceSubject(bufferType, period)
  \/ \E bufferType \in BufferTypes, period \in Periods :
       RemoveTrackChoiceSubject(bufferType, period)
  \/ ResetSubjects
  \/ \E periodId \in PeriodIds, bufferType \in BufferTypes :
       \E wantedId \in AdaptationIds(bufferType) : SetTrackById(periodId, bufferType, wantedId)
  \/ \E periodId \in PeriodIds, bufferType \in BufferTypes : DisableTrack(periodId, bufferType)
  \/ \E periodId \in PeriodIds, bufferType \in BufferTypes : GetChosenTrack(periodId, bufferType)
  \/ \E periodId \in PeriodIds, bufferType \in BufferTypes :
       GetAvailableTracks(periodId, bufferType)
  \/ \E enabled \in BOOLEAN : SetVideoTrickModeTracks(enabled)


\* A subject was added for the Period id and the type, and not removed since.
HasSubscriber(subs, period, type) == << type, PeriodId(period) >> \in subs
HasAnySubscriber(subs, period) == \E type \in BufferTypes : HasSubscriber(subs, period, type)

\* The record a store holds for a Period object.
RecordOf(st, period) == st[CHOOSE k \in DOMAIN st : st[k].period = period]

ListedPeriods(periods) == { periods[k] : k \in DOMAIN periods }

\* C8: at an updatePeriodList call, for every Period that is in the store
\* before and after the call and every type whose wanted Adaptation is not
\* among the Adaptations the Period now supports for that type, the wanted
\* Adaptation becomes the first supported one (null when there is none) and a
\* subscriber added for that Period and type is sent exactly that Adaptation,
\* once.
C8_FallbackToFirstSupported ==
  [][ lastCall'.op = "updatePeriodList" =>
        \A i \in DOMAIN tcmStore, type \in BufferTypes :
          LET period == tcmStore[i].period
              adaptations == getSupportedAdaptations(periodContents', period, type)
          IN ( /\ period \in StoredPeriods(tcmStore')
               /\ tcmStore[i][type].wantedTrack # Null
               /\ ~SomeHasId(adaptations, tcmStore[i][type].wantedTrack) )
             => /\ RecordOf(tcmStore', period)[type].wantedTrack = FirstOrNull(adaptations)
                /\ HasSubscriber(subscribers, period, type)
                     => SelectSeq(nexted', LAMBDA sent : sent.period = period /\ sent.type = type)
                          = << Emission(period, type, FirstOrNull(adaptations)) >>
    ]_vars

\* C9: at an updatePeriodList call, a stored record whose Period id is the id
\* of a Period of the new list stays in the store with its subjects and with
\* every wanted track the listed Period still supports, and afterwards no two
\* records of the store have the same Period id.
C9_MergeByPeriodId ==
  [][ lastCall'.op = "updatePeriodList" =>
        /\ \A i \in DOMAIN tcmStore :
             \A listed \in ListedPeriods(lastCall'.periods) :
               PeriodId(listed) = PeriodId(tcmStore[i].period) =>
                 \E j \in DOMAIN tcmStore' :
                   /\ PeriodId(tcmStore'[j].period) = PeriodId(listed)
                   /\ \A type \in BufferTypes :
                        /\ tcmStore'[j][type].subject = tcmStore[i][type].subject
                        /\ ( \/ tcmStore[i][type].wantedTrack = Null
                             \/ SomeHasId(getSupportedAdaptations(periodContents', listed, type),
                                          tcmStore[i][type].wantedTrack) )
                           => tcmStore'[j][type].wantedTrack = tcmStore[i][type].wantedTrack
        /\ \A j, k \in DOMAIN tcmStore' :
             j # k => PeriodId(tcmStore'[j].period) # PeriodId(tcmStore'[k].period)
    ]_vars

\* C10: a stored Period that an updatePeriodList call does not list is kept,
\* with inManifest = false, when a subscriber is registered on it and removed
\* by that call when none is; from then on it is in the store exactly as long
\* as a subscriber is registered on it.
C10_AbsentPeriodKeptWhileSubscribed ==
  [][ /\ lastCall'.op = "updatePeriodList" =>
           \A i \in DOMAIN tcmStore :
             tcmStore[i].period \notin ListedPeriods(lastCall'.periods) =>
               IF HasAnySubscriber(subscribers, tcmStore[i].period)
                 THEN /\ tcmStore[i].period \in StoredPeriods(tcmStore')
                      /\ ~RecordOf(tcmStore', tcmStore[i].period).inManifest
                 ELSE tcmStore[i].period \notin StoredPeriods(tcmStore')
      /\ \A period \in absentPeriods' : HasAnySubscriber(subscribers', period)
      /\ \A period \in absentPeriods :
           HasAnySubscriber(subscribers', period) => period \in StoredPeriods(tcmStore')
    ]_vars

\* C21: at a call that enables or disables video trick-mode no stored Period's
\* wantedTrackBase changes, and after a call that disables it every stored
\* Period's video wantedTrack is the user's last choice: the Adaptation last
\* given to setVideoTrackByID, null once the user disabled the video track,
\* or the default one (wantedTrackBase) when the user chose nothing.
C21_TrickModeKeepsUserChoice ==
  [][ trickModeTrackEnabled' # trickModeTrackEnabled =>
        \A k \in DOMAIN tcmStore :
          /\ tcmStore'[k].video.wantedTrackBase = tcmStore[k].video.wantedTrackBase
          /\ ~trickModeTrackEnabled' =>
               tcmStore'[k].video.wantedTrack =
                 IF videoChoice[tcmStore[k].period] = Default
                   THEN tcmStore[k].video.wantedTrackBase
                   ELSE videoChoice[tcmStore[k].period]
    ]_vars

C35_InManifestIffListed ==
  lastCall.op = "updatePeriodList" =>
    \A k \in DOMAIN tcmStore :
      tcmStore[k].inManifest <=> tcmStore[k].period \in ListedPeriods(lastCall.periods)

\* C36: after any call, for every record and type on which a subject is
\* registered, lastEmittedTrack is wantedTrack: the last value sent to the
\* subject is the track currently wanted (null when the track was disabled).
C36_LastEmittedIsWanted ==
  \A k \in DOMAIN tcmStore : \A type \in BufferTypes :
    tcmStore[k][type].subject =>
      tcmStore[k][type].lastEmittedTrack = tcmStore[k][type].wantedTrack

\* C37: a call other than updatePeriodList that puts a new Period in the store
\* (addTrackChoiceSubject for a Period that was not stored) registers its
\* subject on the record it creates, for the type the subject was added for.
C37_SubjectRegisteredOnNewRecord ==
  [][ lastCall'.op # "updatePeriodList" =>
        \A period \in StoredPeriods(tcmStore') \ StoredPeriods(tcmStore) :
          /\ Len(nexted') = 1
          /\ nexted'[1].period = period
          /\ RecordOf(tcmStore', period)[nexted'[1].type].subject
    ]_vars

\* C38: for every stored Period, getChosenVideoTrack(its id) returns null when
\* the video wantedTrack of the record found for that id is null and
\* otherwise a description whose id is that wantedTrack, whatever the audio
\* and text choices.
C38_ChosenVideoTrackIsWantedVideoTrack ==
  \A k \in DOMAIN tcmStore :
    LET periodId == PeriodId(tcmStore[k].period)
        periodItem == tcmStore[getPeriodItem(tcmStore, periodId)]
    IN getChosenTrackId(tcmStore, periodId, "video") = periodItem.video.wantedTrack

-----------------------------------------------------------------------------
(***************************************************************************)
(*                    TEMPLATE REPRESENTATION INDEX                        *)
(*                                                                         *)
(* Times given in seconds by the source (fromTime, dur, periodStart,       *)
(* periodEnd, the Manifest bounds, a segment's time and duration) are in   *)
(* milliseconds here; index values (duration, _scaledPeriodEnd, segment    *)
(* starts) are in ticks of the timescale, as in the source.  The           *)
(* timescales are multiples of 1000, so every conversion is exact.         *)
(***************************************************************************)

\* config.MINIMUM_SEGMENT_SIZE (0.005 s).
MINIMUM_SEGMENT_SIZE == 5

\* seconds * timescale, and ticks / timescale.
ToTicks(ms, timescale) == (ms * timescale) \div 1000
ToMs(ticks, timescale) == (ticks * 1000) \div timescale

\* Math.floor(a / b) and Math.ceil(a / b) for b > 0.
FloorDiv(a, b) == a \div b
CeilDiv(a, b) == -((-a) \div b)

\* _scaledPeriodEnd, as computed by the constructor.
scaledPeriodEnd(index) ==
  IF index.periodEnd = None
    THEN None
    ELSE Some(ToTicks(index.periodEnd[1] - index.periodStart, index.timescale))

\* _getFirstSegmentStart; None stands for both null and undefined, which
\* getSegments does not tell apart.
getFirstSegmentStart(index) ==
  IF ~index.isDynamic THEN Some(0)
  ELSE IF /\ (scaledPeriodEnd(index) = None \/ scaledPeriodEnd(index) = Some(0))
          /\ index.maximumBound # None
          /\ index.maximumBound[1] < index.periodStart
    THEN None
  ELSE IF index.minimumBound = None THEN None
  ELSE LET firstPosition == index.minimumBound[1]
           segmentTime == IF firstPosition > index.periodStart
                            THEN ToTicks(firstPosition - index.periodStart, index.timescale)
                            ELSE 0
       IN Some(FloorDiv(segmentTime, index.duration) * index.duration)

\* _getLastSegmentStart, with the same reading of None.
getLastSegmentStart(index) ==
  LET duration == index.duration
      timescale == index.timescale
      end == scaledPeriodEnd(index)
  IN IF index.isDynamic
       THEN IF index.maximumBound = None THEN None
            ELSE LET lastPos == index.maximumBound[1]
                     agressiveModeOffset == IF index.aggressiveMode
                                              THEN ToMs(duration, timescale)
                                              ELSE 0
                     scaledLastPosition == ToTicks(lastPos - index.periodStart, timescale)
                     availabilityTimeOffset ==
                       ToTicks((IF index.availabilityTimeOffset # None
                                  THEN index.availabilityTimeOffset[1]
                                  ELSE 0) + agressiveModeOffset, timescale)
                     numberOfSegmentsAvailable ==
                       FloorDiv(scaledLastPosition + availabilityTimeOffset, duration)
                 IN IF /\ end # None
                       /\ end[1] < ToTicks(lastPos + agressiveModeOffset - index.periodStart,
                                           timescale)
                      THEN IF end[1] < duration
                             THEN None
                             ELSE Some((FloorDiv(end[1], duration) - 1) * duration)
                    ELSE IF scaledLastPosition < 0 THEN None
                    ELSE IF numberOfSegmentsAvailable <= 0 THEN None
                    ELSE Some((numberOfSegmentsAvailable - 1) * duration)
       ELSE LET maximumTime == IF end = None THEN 0 ELSE end[1]
                numberIndexedToZero == CeilDiv(maximumTime, duration) - 1
                regularLastSegmentStart == numberIndexedToZero * duration
            IN IF \/ (maximumTime - regularLastSegmentStart) * 1000
                        > MINIMUM_SEGMENT_SIZE * timescale
                  \/ numberIndexedToZero = 0
                 THEN Some(regularLastSegmentStart)
                 ELSE Some((numberIndexedToZero - 1) * duration)

\* getFirstPosition(), in milliseconds; None for null and undefined.
getFirstPosition(index) ==
  LET firstSegmentStart == getFirstSegmentStart(index)
  IN IF firstSegmentStart = None
       THEN None
       ELSE Some(ToMs(firstSegmentStart[1], index.timescale) + index.periodStart)

\* getLastPosition changed to give the start of the last segment.
getLastPositionSegmentStart(index) ==
  LET lastSegmentStart == getLastSegmentStart(index)
  IN IF lastSegmentStart = None
       THEN None
       ELSE Some(ToMs(lastSegmentStart[1], index.timescale) + index.periodStart)

\* getLastPosition(), in milliseconds; None for null and undefined.
getLastPosition(index) ==
  LET lastSegmentStart == getLastSegmentStart(index)
  IN IF lastSegmentStart = None
       THEN None
       ELSE LET lastSegmentEnd == lastSegmentStart[1] + index.duration
            IN Some(ToMs(lastSegmentEnd, index.timescale) + index.periodStart)

\* The number of rounds of getSegments' `for` loop, which starts at
\* firstNumber * duration and goes on while
\* `timeFromPeriodStart <= lastWantedStartPosition`.
NbSegmentsOneMore(firstNumber, duration, lastWantedStartPosition) ==
  IF firstNumber * duration <= lastWantedStartPosition + duration
    THEN FloorDiv(lastWantedStartPosition - firstNumber * duration, duration) + 2
    ELSE 0

NbSegments(firstNumber, duration, lastWantedStartPosition) ==
  IF firstNumber * duration <= lastWantedStartPosition
    THEN FloorDiv(lastWantedStartPosition - firstNumber * duration, duration) + 1
    ELSE 0

\* getSegments(fromTime, dur): the `number`, `time`, `end` and `duration` of
\* the segments returned, in order.
getSegments(index, fromTime, dur) ==
  LET duration == index.duration
      timescale == index.timescale
      scaledStart == ToTicks(index.periodStart, timescale)
      scaledEnd == scaledPeriodEnd(index)
      upFromPeriodStart == ToTicks(fromTime, timescale) - scaledStart
      toFromPeriodStart == ToTicks(fromTime + dur, timescale) - scaledStart
      firstSegmentStart == getFirstSegmentStart(index)
      lastSegmentStart == getLastSegmentStart(index)
  IN IF firstSegmentStart = None \/ lastSegmentStart = None THEN << >>
     ELSE LET startPosition == Max2(firstSegmentStart[1], upFromPeriodStart)
              lastWantedStartPosition == Min2(lastSegmentStart[1], toFromPeriodStart)
              numberOffset == IF index.startNumber = None THEN 1 ELSE index.startNumber[1]
              firstNumber == FloorDiv(startPosition, duration)
              nbSegments == NbSegments(firstNumber, duration, lastWantedStartPosition)
          IN IF lastWantedStartPosition + duration <= startPosition THEN << >>
             ELSE [ k \in 1..nbSegments |->
                      LET numberIndexedToZero == firstNumber + k - 1
                          timeFromPeriodStart == numberIndexedToZero * duration
                          realDuration == IF /\ scaledEnd # None
                                             /\ timeFromPeriodStart + duration > scaledEnd[1]
                                            THEN scaledEnd[1] - timeFromPeriodStart
                                            ELSE duration
                          realTime == timeFromPeriodStart + scaledStart
                      IN [ number |-> numberIndexedToZero + numberOffset,
                           time |-> ToMs(realTime, timescale),
                           end |-> ToMs(realTime + realDuration, timescale),
                           duration |-> ToMs(realDuration, timescale) ] ]

\* The indexes the model builds (constructor arguments and the estimates of
\* the ManifestBoundsCalculator) and the ranges it asks for.
TemplateIndexes ==
  [ isDynamic : BOOLEAN,
    periodStart : { 0, 4000 },
    periodEnd : { None },
    timescale : { 1000, 2000 },
    duration : { 4000, 6000 },
    startNumber : { None, Some(0) },
    aggressiveMode : BOOLEAN,
    availabilityTimeOffset : { None, Some(1000) },
    minimumBound : { None, Some(0), Some(5000) },
    maximumBound : { None, Some(3000), Some(9000), Some(20000) } ]

\* periodEnd is given relatively to periodStart: none, 7 s or 10.003 s later.
PeriodDurations == { None, Some(7000), Some(10003) }

WithPeriodEnd(index, periodDuration) ==
  [ index EXCEPT !.periodEnd = IF periodDuration = None
                                 THEN None
                                 ELSE Some(index.periodStart + periodDuration[1]) ]

FromTimes == { 0, 2000, 4000, 8000, 12000, 15000 }
Durs == { 0, 2000, 4000, 10000 }

TemplateInit(indexes) ==
  /\ templateIndex \in indexes
  /\ templateRange = None
  /\ templateSegments = << >>
  /\ templatePosition = None

\* One call of getSegments(fromTime, dur) on the index.
GetSegments(fromTime, dur) ==
  /\ templateRange' = Some([ fromTime |-> fromTime, dur |-> dur ])
  /\ templateSegments' = getSegments(templateIndex, fromTime, dur)
  /\ templatePosition' = None
  /\ UNCHANGED templateIndex
  /\ UNCHANGED notTemplateVars

\* One call of getFirstPosition() on the index.
GetFirstPosition ==
  /\ templatePosition' = Some([ op |-> "getFirstPosition",
                                value |-> getFirstPosition(templateIndex) ])
  /\ templateRange' = None
  /\ templateSegments' = << >>
  /\ UNCHANGED templateIndex
  /\ UNCHANGED notTemplateVars

\* One call of getLastPosition() on the index.
GetLastPosition ==
  /\ templatePosition' = Some([ op |-> "getLastPosition",
                                value |-> getLastPosition(templateIndex) ])
  /\ templateRange' = None
  /\ templateSegments' = << >>
  /\ UNCHANGED templateIndex
  /\ UNCHANGED notTemplateVars

NextTemplate ==
  \/ \E fromTime \in FromTimes, dur \in Durs : GetSegments(fromTime, dur)
  \/ GetFirstPosition
  \/ GetLastPosition

\* The default index of the specifications of the other components.
DefaultTemplateIndex ==
  [ isDynamic |-> FALSE, periodStart |-> 0, periodEnd |-> Some(10000), timescale |-> 1000,
    duration |-> 4000, startNumber |-> None, aggressiveMode |-> FALSE,
    availabilityTimeOffset |-> None, minimumBound |-> None, maximumBound |-> None ]

\* A dynamic index on a Period without end that starts at 0: timescale 1000,
\* duration 4000, no availability time offset, aggressive mode off, the
\* Manifest bounds being 80 s and 100 s (a timeshift depth of 20 s).
LiveTemplateIndex ==
  [ isDynamic |-> TRUE, periodStart |-> 0, periodEnd |-> None, timescale |-> 1000,
    duration |-> 4000, startNumber |-> Some(1), aggressiveMode |-> FALSE,
    availabilityTimeOffset |-> None, minimumBound |-> Some(80000),
    maximumBound |-> Some(100000) ]

C23_LivePositions ==
  (templateIndex = LiveTemplateIndex /\ templatePosition # None) =>
    templatePosition[1].value = IF templatePosition[1].op = "getFirstPosition"
                                  THEN Some(80000)
                                  ELSE Some(96000)

\* C23 (amended): on that index getFirstPosition() returns 80 s and
\* getLastPosition() returns 100 s, the end of the last available segment,
\* which starts at 96 s.
C23_LivePositionsLastSegmentEnd ==
  (templateIndex = LiveTemplateIndex /\ templatePosition # None) =>
    /\ templatePosition[1].value = IF templatePosition[1].op = "getFirstPosition"
                                     THEN Some(80000)
                                     ELSE Some(100000)
    /\ getLastSegmentStart(templateIndex) = Some(96000)

\* getLastPosition() was called on that index.
C23_Witness ==
  /\ templateIndex = LiveTemplateIndex
  /\ templatePosition # None
  /\ templatePosition[1].op = "getLastPosition"

-----------------------------------------------------------------------------
(***************************************************************************)
(*                      BASE REPRESENTATION INDEX                          *)
(***************************************************************************)

\* The number of _addSegments calls made on the index in one run.
MaxAddSegments == 3

\* Segments as getSegmentsFromSidx gives them: time and duration in their
\* own timescale, a byte range, no `count`.
SidxSegment(time, duration, timescale, firstByte) ==
  [ time |-> time, duration |-> duration, timescale |-> timescale, count |-> None,
    range |-> << firstByte, firstByte + 99 >> ]

\* The lists of segments a parsed `sidx` box can give.
SidxSegmentLists ==
  { << >>,
    << SidxSegment(0, 4, 1, 800) >>,
    << SidxSegment(0, 4, 1, 800), SidxSegment(4, 4, 1, 900) >>,
    << SidxSegment(8, 4, 1, 1000) >>,
    << SidxSegment(0, 8, 2, 800), SidxSegment(8, 8, 2, 900) >> }

\* _addSegmentInfos: the timeline once the segment has been added.
addSegmentInfos(index, segmentInfos) ==
  [ index EXCEPT !.timeline =
      Append(@, IF segmentInfos.timescale # index.timescale
                  THEN [ start |-> (segmentInfos.time * index.timescale)
                                     \div segmentInfos.timescale,
                         duration |-> (segmentInfos.duration * index.timescale)
                                        \div segmentInfos.timescale,
                         repeatCount |-> IF segmentInfos.count = None
                                           THEN 0
                                           ELSE segmentInfos.count[1],
                         range |-> segmentInfos.range ]
                  ELSE [ start |-> segmentInfos.time,
                         duration |-> segmentInfos.duration,
                         repeatCount |-> IF segmentInfos.count = None
                                           THEN 0
                                           ELSE segmentInfos.count[1],
                         range |-> segmentInfos.range ]) ]

\* The `for` loop of _addSegments.
RECURSIVE addAllSegmentInfos(_, _)
addAllSegmentInfos(index, nextSegments) ==
  IF nextSegments = << >>
    THEN index
    ELSE addAllSegmentInfos(addSegmentInfos(index, Head(nextSegments)), Tail(nextSegments))

\* BaseRepresentationIndex(index, context), for an index given without or
\* with a timeline.
BaseInit(timescale) ==
  /\ baseIndex = [ timescale |-> timescale, timeline |-> << >> ]
  /\ baseIsInitialized = FALSE
  /\ baseLastAdded = None
  /\ nbAddSegments = 0

\* BaseRepresentationIndex._addSegments(nextSegments)
AddSegments(nextSegments) ==
  /\ nbAddSegments < MaxAddSegments
  /\ nbAddSegments' = nbAddSegments + 1
  /\ baseIndex' = addAllSegmentInfos(baseIndex, nextSegments)
  /\ baseIsInitialized' = (baseIsInitialized \/ Len(baseIndex'.timeline) > 0)
  /\ baseLastAdded' = Some(nextSegments)
  /\ UNCHANGED notBaseVars

\* parseISOBMFFEmbeddedTextTrack on an initialization segment whose `sidx`
\* box gives sidxSegments (<< >> also stands for no `sidx` box).
ParseInitSegment(sidxSegments) ==
  IF Len(sidxSegments) > 0
    THEN AddSegments(sidxSegments)
    ELSE /\ nbAddSegments < MaxAddSegments
         /\ UNCHANGED vars

NextBase ==
  \/ \E nextSegments \in SidxSegmentLists : AddSegments(nextSegments)
  \/ \E sidxSegments \in SidxSegmentLists : ParseInitSegment(sidxSegments)

\* C12: an _addSegments call made with the list of the call before it leaves
\* the timeline of the Base index as it was: no segment is added a second
\* time.
C12_AddSegmentsTwiceAddsOnce ==
  [][ (baseLastAdded # None /\ baseLastAdded' = baseLastAdded)
        => baseIndex'.timeline = baseIndex.timeline ]_vars

-----------------------------------------------------------------------------
(***************************************************************************)
(*                             MPD PARSER                                  *)
(*                                                                         *)
(* parseMpdIr and the loop of the transport's manifest parser that drives  *)
(* its continuations.  A Period of the intermediate representation is kept *)
(* as its xlink attributes; a clock offset is kept as the place it came    *)
(* from ("given", "direct", "loaded") or "NaN".                            *)
(***************************************************************************)

\* The URLs of remote Periods.
XlinkUrls == { "u1", "u2" }

\* A Period of the MPD: without xlink, or with xlink:href and xlink:actuate.
PlainPeriod == [ xlinkHref |-> None, xlinkActuate |-> "onRequest" ]
XlinkedPeriod(url, actuate) == [ xlinkHref |-> Some(url), xlinkActuate |-> actuate ]

\* The MPDs given to the parser: their root (`type`, a direct UTCTiming with
\* a parsable or an unparsable value, an HTTP UTCTiming) and their Periods.
MpdRoots ==
  [ isDynamic : BOOLEAN, directTiming : { "none", "valid", "invalid" }, httpTiming : BOOLEAN ]

MpdPeriodIRs ==
  { PlainPeriod, XlinkedPeriod("u1", "onLoad"), XlinkedPeriod("u2", "onLoad"),
    XlinkedPeriod("u1", "onRequest") }

MpdPeriodLists ==
  { << p >> : p \in MpdPeriodIRs } \cup { << p, q >> : p \in MpdPeriodIRs, q \in MpdPeriodIRs }

\* What a fetched and parsed remote Period resource can be (ILoadedXlinkData):
\* no Period, one Period with a parsing warning named after the URL, two
\* Periods, or one Period that is itself a remote Period to load.
LoadedXlinkData(url) ==
  { [ parsed |-> << >>, warnings |-> << >> ],
    [ parsed |-> << PlainPeriod >>, warnings |-> << url >> ],
    [ parsed |-> << PlainPeriod, PlainPeriod >>, warnings |-> << >> ] }
  \cup { [ parsed |-> << XlinkedPeriod(u, "onLoad") >>, warnings |-> << >> ] : u \in XlinkUrls }

\* getClockOffset(clockValue), for a parsable and an unparsable clock value.
ClockValues == { "loaded", "NaN" }

\* `xlinksToLoad`: the indexes of the Periods to load, with their URL.
XlinksToLoad(periods) ==
  LET toLoad == SelectSeq([ i \in DOMAIN periods |-> i ],
                          LAMBDA i : /\ periods[i].xlinkHref # None
                                     /\ periods[i].xlinkActuate = "onLoad")
  IN [ k \in DOMAIN toLoad |->
         [ index |-> toLoad[k], ressource |-> periods[toLoad[k]].xlinkHref[1] ] ]

\* parseMpdIr: the response, with the externalClockOffset it leaves in `args`.
parseMpdIr(root, periods, externalClockOffset, warnings, hasLoadedClock) ==
  LET clockOffset == IF root.directTiming = "valid" THEN Some("direct") ELSE None
      offset == IF externalClockOffset = None /\ clockOffset # None /\ ~hasLoadedClock
                  THEN clockOffset
                  ELSE externalClockOffset
      xlinksToLoad == XlinksToLoad(periods)
  IN IF /\ externalClockOffset = None
        /\ ~(clockOffset # None /\ ~hasLoadedClock)
        /\ root.isDynamic /\ ~hasLoadedClock
        /\ root.httpTiming
       THEN [ type |-> "needs-clock", externalClockOffset |-> offset,
              xlinksToLoad |-> << >>, warnings |-> << >> ]
     ELSE IF Len(xlinksToLoad) = 0
       THEN [ type |-> "done", externalClockOffset |-> offset,
              xlinksToLoad |-> << >>, warnings |-> warnings ]
     ELSE [ type |-> "needs-xlinks", externalClockOffset |-> offset,
            xlinksToLoad |-> xlinksToLoad, warnings |-> << >> ]

\* `rootChildren.periods.splice(index, 1, ...periodsIR)`
SplicePeriods(periods, index, periodsIR) ==
  SubSeq(periods, 1, index - 1) \o periodsIR \o SubSeq(periods, index + 1, Len(periods))

\* The loop of the needs-xlinks continuation, from the last loaded resource
\* (i) to the first: the Periods and the warnings it leaves.
RECURSIVE ReplaceXlinks(_, _, _, _, _)
ReplaceXlinks(periods, warnings, xlinksToLoad, loadedRessources, i) ==
  IF i = 0
    THEN [ periods |-> periods, warnings |-> warnings ]
    ELSE ReplaceXlinks(SplicePeriods(periods, xlinksToLoad[i].index,
                                     loadedRessources[i].parsed),
                       warnings \o loadedRessources[i].warnings,
                       xlinksToLoad, loadedRessources, i - 1)

\* The lists of loaded resources that can answer a needs-xlinks response.
RECURSIVE LoadedRessources(_)
LoadedRessources(xlinksToLoad) ==
  IF Len(xlinksToLoad) = 0
    THEN { << >> }
    ELSE { << first >> \o rest :
             first \in LoadedXlinkData(xlinksToLoad[1].ressource),
             rest \in LoadedRessources(Tail(xlinksToLoad)) }

MpdInit(roots, periodLists, clockOffsets) ==
  /\ mpdRoot \in roots
  /\ mpdPeriods \in periodLists
  /\ mpdExternalClockOffset \in clockOffsets
  /\ mpdWarnings = << >>
  /\ mpdHasLoadedClock = FALSE
  /\ mpdResponse = "none"
  /\ mpdXlinksToLoad = << >>
  /\ mpdStatus = "idle"
  /\ mpdCancelled = FALSE
  /\ nbClockRequests = 0
  /\ fetchedWarnings = { }
  /\ reportedWarnings = << >>

\* processMpdParserResponse, up to the requests it schedules: a "done"
\* response reports its warnings and gives the Manifest, or rejects once
\* cancelled; any other response has its resources requested, requests that
\* reject at once when cancelled.  `throws` tells whether the parsing of the
\* complete representation throws.
processMpdParserResponse(parserResponse, throws) ==
  /\ mpdXlinksToLoad' = parserResponse.xlinksToLoad
  /\ mpdExternalClockOffset' = parserResponse.externalClockOffset
  /\ IF parserResponse.type = "done" /\ throws
       THEN /\ mpdStatus' = "error"
            /\ UNCHANGED << mpdResponse, nbClockRequests, reportedWarnings >>
     ELSE IF parserResponse.type = "done"
       THEN /\ mpdResponse' = "done"
            /\ reportedWarnings' = parserResponse.warnings
            /\ mpdStatus' = IF mpdCancelled THEN "cancelled" ELSE "done"
            /\ UNCHANGED nbClockRequests
     ELSE /\ mpdResponse' = parserResponse.type
          /\ mpdStatus' = IF mpdCancelled THEN "cancelled" ELSE "waiting"
          /\ nbClockRequests' = nbClockRequests
                                  + (IF parserResponse.type = "needs-clock" THEN 1 ELSE 0)
          /\ UNCHANGED reportedWarnings

\* manifestParser: the MPD is parsed and the first response processed.
ManifestParser(throws) ==
  /\ mpdStatus = "idle"
  /\ processMpdParserResponse(parseMpdIr(mpdRoot, mpdPeriods, mpdExternalClockOffset,
                                         mpdWarnings, mpdHasLoadedClock), throws)
  /\ UNCHANGED << mpdRoot, mpdPeriods, mpdWarnings, mpdHasLoadedClock, mpdCancelled,
                  fetchedWarnings >>
  /\ UNCHANGED notMpdVars

\* The clock was fetched: the needs-clock continuation, then the processing
\* of its response.
ClockLoaded(clockValue, throws) ==
  /\ mpdStatus = "waiting"
  /\ mpdResponse = "needs-clock"
  /\ mpdHasLoadedClock' = TRUE
  /\ processMpdParserResponse(parseMpdIr(mpdRoot, mpdPeriods, Some(clockValue),
                                         mpdWarnings, TRUE), throws)
  /\ UNCHANGED << mpdRoot, mpdPeriods, mpdWarnings, mpdCancelled, fetchedWarnings >>
  /\ UNCHANGED notMpdVars

\* The remote Periods were all fetched and parsed: the needs-xlinks
\* continuation, then the processing of its response.
XlinksLoaded(loadedRessources, throws) ==
  /\ mpdStatus = "waiting"
  /\ mpdResponse = "needs-xlinks"
  /\ \E replaced \in { ReplaceXlinks(mpdPeriods, mpdWarnings, mpdXlinksToLoad,
                                     loadedRessources, Len(loadedRessources)) } :
       /\ mpdPeriods' = replaced.periods
       /\ mpdWarnings' = replaced.warnings
       /\ processMpdParserResponse(parseMpdIr(mpdRoot, replaced.periods,
                                              mpdExternalClockOffset, replaced.warnings,
                                              mpdHasLoadedClock), throws)
  /\ fetchedWarnings' = fetchedWarnings
                          \cup UNION { { loadedRessources[i].warnings[k] :
                                           k \in DOMAIN loadedRessources[i].warnings } :
                                       i \in DOMAIN loadedRessources }
  /\ UNCHANGED << mpdRoot, mpdHasLoadedClock, mpdCancelled >>
  /\ UNCHANGED notMpdVars

\* A request fails (or a resource has not the expected format): the Promise
\* of the parser rejects.
ResourceFails ==
  /\ mpdStatus = "waiting"
  /\ mpdStatus' = "error"
  /\ UNCHANGED << mpdRoot, mpdPeriods, mpdExternalClockOffset, mpdWarnings,
                  mpdHasLoadedClock, mpdResponse, mpdXlinksToLoad, mpdCancelled,
                  nbClockRequests, fetchedWarnings, reportedWarnings >>
  /\ UNCHANGED notMpdVars

\* The cancellation signal is triggered while resources are awaited.
CancelParsing ==
  /\ mpdStatus = "waiting"
  /\ ~mpdCancelled
  /\ mpdCancelled' = TRUE
  /\ UNCHANGED << mpdRoot, mpdPeriods, mpdExternalClockOffset, mpdWarnings,
                  mpdHasLoadedClock, mpdResponse, mpdXlinksToLoad, mpdStatus,
                  nbClockRequests, fetchedWarnings, reportedWarnings >>
  /\ UNCHANGED notMpdVars

\* The requests in flight reject with the cancellation error.
RequestsCancelled ==
  /\ mpdStatus = "waiting"
  /\ mpdCancelled
  /\ mpdStatus' = "cancelled"
  /\ UNCHANGED << mpdRoot, mpdPeriods, mpdExternalClockOffset, mpdWarnings,
                  mpdHasLoadedClock, mpdResponse, mpdXlinksToLoad, mpdCancelled,
                  nbClockRequests, fetchedWarnings, reportedWarnings >>
  /\ UNCHANGED notMpdVars

NextMpd ==
  \/ \E throws \in BOOLEAN : ManifestParser(throws)
  \/ \E clockValue \in ClockValues, throws \in BOOLEAN : ClockLoaded(clockValue, throws)
  \/ \E loadedRessources \in LoadedRessources(mpdXlinksToLoad), throws \in BOOLEAN :
       XlinksLoaded(loadedRessources, throws)
  \/ ResourceFails
  \/ CancelParsing
  \/ RequestsCancelled

\* The default MPD of the specifications of the other components.
StaticMpdRoot == [ isDynamic |-> FALSE, directTiming |-> "none", httpTiming |-> FALSE ]

\* The parse is over: a Manifest, an error or a cancellation.
ParsingEnded == mpdStatus \in { "done", "error", "cancelled" }

\* C24: driving the MPD parser, each needs-clock or needs-xlinks response
\* being answered with the fetched resources, always ends with a done
\* response, an error or a cancellation.
C24_ParsingEnds == <>ParsingEnded

\* The clock is requested at most once per parse.
ClockRequestedAtMostOnce == nbClockRequests <= 1

\* The warnings of every fetched resource are among those reported with the
\* final result.
FetchedWarningsReported ==
  mpdStatus = "done" =>
    fetchedWarnings \subseteq { reportedWarnings[k] : k \in DOMAIN reportedWarnings }

-----------------------------------------------------------------------------
(***************************************************************************)
(*                             ADAPTATION                                  *)
(*                                                                         *)
(* The constructor of Adaptation, for what it does with Representations.   *)
(* A parsed Representation is its id, its bitrate and whether the          *)
(* Representation built from it is supported.                              *)
(***************************************************************************)

\* The longest list of parsed Representations given to the constructor.
MaxRepresentations == 3

ParsedBitrates == { 10, 20, 30 }

\* The lists of parsed Representations: the id is the place in the list.
ParsedRepresentationLists ==
  UNION { { [ i \in 1..n |-> [ id |-> i, bitrate |-> f[i][1], isSupported |-> f[i][2] ] ] :
              f \in [ 1..n -> ParsedBitrates \X BOOLEAN ] } :
          n \in 0..MaxRepresentations }

\* The representationFilter options: none, or a callback keeping the
\* supported Representations, or one keeping the bitrates under 30.
RepresentationFilters == { "undefined", "supported", "under30" }

representationFilter(filter, representation) ==
  IF filter = "supported" THEN representation.isSupported
  ELSE representation.bitrate < 30

\* The loop of the constructor: the Representations kept, in the order given.
AddedRepresentations(argsRepresentations, filter) ==
  SelectSeq(argsRepresentations,
            LAMBDA representation :
              filter = "undefined" \/ representationFilter(filter, representation))

\* `sorted`, an array in the order wanted, with one more element put after
\* every element that does not compare as greater.
InsertByBitrate(sorted, representation) ==
  LET before == SelectSeq(sorted, LAMBDA r : r.bitrate - representation.bitrate <= 0)
      after == SelectSeq(sorted, LAMBDA r : r.bitrate - representation.bitrate > 0)
  IN before \o << representation >> \o after

\* The sort left out: the Representations stay in the order they were added.
SortByBitrateNever(representations) == representations

\* `representations.sort((a, b) => a.bitrate - b.bitrate)`
RECURSIVE SortByBitrate(_)
SortByBitrate(representations) ==
  IF Len(representations) = 0
    THEN << >>
    ELSE InsertByBitrate(SortByBitrate(SubSeq(representations, 1, Len(representations) - 1)),
                         representations[Len(representations)])

\* `new Adaptation(parsedAdaptation, options)`, without its trick-mode tracks.
NewAdaptation(argsRepresentations, filter) ==
  LET added == AddedRepresentations(argsRepresentations, filter)
  IN [ representations |-> SortByBitrate(added),
       isSupported |-> \E k \in DOMAIN added : added[k].isSupported ]

\* The parsed trick-mode tracks: none, or one track of two Representations.
ParsedTrickModeTracks ==
  { << >>,
    << << [ id |-> 1, bitrate |-> 30, isSupported |-> TRUE ],
          [ id |-> 2, bitrate |-> 10, isSupported |-> TRUE ] >> >> }

AdaptationInit ==
  /\ builtAdaptation = None
  /\ parsedAdaptation = None

\* `new Adaptation(parsedAdaptation, { representationFilter })`, which runs
\* once for the object: the trick-mode tracks are built by the same
\* constructor, without options.
ConstructAdaptation(argsRepresentations, parsedTracks, filter) ==
  /\ builtAdaptation = None
  /\ parsedAdaptation' = Some([ representations |-> argsRepresentations,
                               trickModeTracks |-> parsedTracks,
                               representationFilter |-> filter ])
  /\ builtAdaptation' = Some(NewAdaptation(argsRepresentations, filter)
                             @@ [ trickModeTracks |->
                                    [ k \in DOMAIN parsedTracks |->
                                        NewAdaptation(parsedTracks[k], "undefined") ] ])
  /\ UNCHANGED notAdaptationVars

NextAdaptation ==
  \E argsRepresentations \in ParsedRepresentationLists,
     parsedTracks \in ParsedTrickModeTracks,
     filter \in RepresentationFilters :
    ConstructAdaptation(argsRepresentations, parsedTracks, filter)

\* An array of Representations is ordered by non-decreasing bitrate.
NonDecreasingBitrates(representations) ==
  \A k \in 1..(Len(representations) - 1) :
    representations[k].bitrate <= representations[k + 1].bitrate

\* C25: once an Adaptation is constructed, from any list of parsed
\* Representations and with or without a representationFilter, its
\* representations array (and that of each of its trick-mode tracks) is
\* ordered by non-decreasing bitrate.
C25_RepresentationsSortedByBitrate ==
  builtAdaptation # None =>
    /\ NonDecreasingBitrates(builtAdaptation[1].representations)
    /\ \A k \in DOMAIN builtAdaptation[1].trickModeTracks :
         NonDecreasingBitrates(builtAdaptation[1].trickModeTracks[k].representations)

\* An Adaptation was constructed with a filter from three parsed
\* Representations given in decreasing order of bitrate, and kept at least two.
C25_Witness ==
  /\ builtAdaptation # None
  /\ parsedAdaptation[1].representationFilter # "undefined"
  /\ Len(parsedAdaptation[1].representations) = 3
  /\ parsedAdaptation[1].representations[1].bitrate
       > parsedAdaptation[1].representations[2].bitrate
  /\ parsedAdaptation[1].representations[2].bitrate
       > parsedAdaptation[1].representations[3].bitrate
  /\ Len(builtAdaptation[1].representations) >= 2

-----------------------------------------------------------------------------
(***************************************************************************)
(*                      STREAM PLAYBACK OBSERVER                           *)
(*                                                                         *)
(* The observations of the PlaybackObserver are numbered 0, 1, 2...; of    *)
(* the observation sent to the Streams only the position (standing for the *)
(* PlaybackObserver's observation it was made from) and the speed are      *)
(* kept.                                                                   *)
(***************************************************************************)

\* Number of observations made and of speeds set in one run.
MaxStreamEvents == 3

\* The subscriptions made to the Stream observer's listen.
StreamListeners == 1..2

\* The values given to speed$.
StreamSpeeds == { 1, 2 }

mapInitialObservation(initialObservation, speed) ==
  [ position |-> initialObservation, speed |-> speed ]

\* The Stream observer's getLastObservation().
StreamGetLastObservation == mapInitialObservation(streamLastObservation, streamSpeed)

\* The Stream observer's listen(includeLastObservation): the number of items
\* of `listen` its skip operator drops.
StreamListenSkip(includeLastObservation) == IF includeLastObservation THEN 1 ELSE 0

\* A subscription: its status (none, subscribed, unsubscribed), the argument
\* of listen, the items skip still drops, what the subscriber has received,
\* and as history what it received inside the subscribe call and what the
\* last known observation was then.
Listener(status, includeLastObservation, toSkip, received, onSubscribe, lastKnown) ==
  [ status |-> status, includeLastObservation |-> includeLastObservation,
    toSkip |-> toSkip, received |-> received, onSubscribe |-> onSubscribe,
    lastKnown |-> lastKnown ]

NoListener == Listener("none", FALSE, 0, << >>, << >>, mapInitialObservation(0, 1))

\* observation$ is shared: it is subscribed to its sources (the
\* PlaybackObserver's listen(true) and speed$) while it has a subscriber.
ObservationShared(listeners) ==
  \E s \in DOMAIN listeners : listeners[s].status = "subscribed"

\* One item of `listen` reaching one subscription, through skip.
StreamDeliver(listener, observation) ==
  IF listener.toSkip > 0
    THEN [ listener EXCEPT !.toSkip = @ - 1 ]
    ELSE [ listener EXCEPT !.received = Append(@, observation) ]

\* One item of the shared observation$ reaching every subscription.
StreamEmit(listeners, observation) ==
  [ s \in DOMAIN listeners |->
      IF listeners[s].status = "subscribed"
        THEN StreamDeliver(listeners[s], observation)
        ELSE listeners[s] ]

StreamObsInit ==
  /\ streamLastObservation = 0
  /\ streamSpeed = 1
  /\ streamListeners = [ s \in StreamListeners |-> NoListener ]
  /\ nbStreamEvents = 0

\* listen(includeLastObservation).subscribe(): the first subscriber of the
\* shared observation$ subscribes it to the PlaybackObserver's listen(true),
\* which starts with the last observation, and to speed$, which sends its
\* value: combineLatest sends one item at once.  A later subscriber joins the
\* share, which replays nothing.
StreamListen(s, includeLastObservation) ==
  /\ streamListeners[s].status = "none"
  /\ LET new == Listener("subscribed", includeLastObservation,
                         StreamListenSkip(includeLastObservation), << >>, << >>,
                         StreamGetLastObservation)
         subscribed == IF ObservationShared(streamListeners)
                         THEN new
                         ELSE StreamDeliver(new, StreamGetLastObservation)
     IN streamListeners' = [ streamListeners EXCEPT
                               ![s] = [ subscribed EXCEPT !.onSubscribe = subscribed.received ] ]
  /\ UNCHANGED << streamLastObservation, streamSpeed, nbStreamEvents >>
  /\ UNCHANGED notStreamObsVars

StreamUnsubscribe(s) ==
  /\ streamListeners[s].status = "subscribed"
  /\ streamListeners' = [ streamListeners EXCEPT ![s].status = "unsubscribed" ]
  /\ UNCHANGED << streamLastObservation, streamSpeed, nbStreamEvents >>
  /\ UNCHANGED notStreamObsVars

\* The PlaybackObserver, which other modules listen to as well, makes an
\* observation.
StreamObserve ==
  /\ nbStreamEvents < MaxStreamEvents
  /\ nbStreamEvents' = nbStreamEvents + 1
  /\ streamLastObservation' = streamLastObservation + 1
  /\ streamListeners' =
       IF ObservationShared(streamListeners)
         THEN StreamEmit(streamListeners,
                         mapInitialObservation(streamLastObservation + 1, streamSpeed))
         ELSE streamListeners
  /\ UNCHANGED streamSpeed
  /\ UNCHANGED notStreamObsVars

\* speed$.next(speed)
StreamSpeedChanges(speed) ==
  /\ nbStreamEvents < MaxStreamEvents
  /\ nbStreamEvents' = nbStreamEvents + 1
  /\ streamSpeed' = speed
  /\ streamListeners' =
       IF ObservationShared(streamListeners)
         THEN StreamEmit(streamListeners, mapInitialObservation(streamLastObservation, speed))
         ELSE streamListeners
  /\ UNCHANGED streamLastObservation
  /\ UNCHANGED notStreamObsVars

NextStreamObs ==
  \/ \E s \in StreamListeners, includeLastObservation \in BOOLEAN :
       StreamListen(s, includeLastObservation)
  \/ \E s \in StreamListeners : StreamUnsubscribe(s)
  \/ StreamObserve
  \/ \E speed \in StreamSpeeds : StreamSpeedChanges(speed)

\* C39: a subscriber of the Stream observer's listen(true) receives, inside
\* the subscribe call, the observation that was the last known one then and
\* nothing else; a subscriber of listen(false) receives nothing inside the
\* subscribe call (it only receives observations made afterwards).
C39_LastObservationOnSubscribeIffAsked ==
  \A s \in StreamListeners :
    streamListeners[s].status # "none" =>
      streamListeners[s].onSubscribe =
        IF streamListeners[s].includeLastObservation
          THEN << streamListeners[s].lastKnown >>
          ELSE << >>

-----------------------------------------------------------------------------
(***************************************************************************)
(*                          PUSH INIT SEGMENT                              *)
(***************************************************************************)

\* The subscriptions made to pushInitSegment Observables, all on the same
\* SegmentBuffer.
InitPushes == 1..2

\* The `segmentData` arguments: null, or the data of an init segment.
InitSegmentDatas == { Null, "init-a", "init-b" }

\* IPushedChunkData, without the codec.
PushedChunkData(segmentData) ==
  [ initSegment |-> segmentData, chunk |-> Null, timestampOffset |-> 0,
    appendWindow |-> << Undefined, Undefined >> ]

\* A subscription: the segmentData argument, the state of the Promise of
\* appendSegmentToBuffer (none, pending, resolved, rejected), whether the
\* subscriber is closed (it completed, errored or unsubscribed), whether the
\* TaskCanceller was cancelled and, as history, what the subscriber received.
InitPush(segmentData, append, closed, isCancelled, events) ==
  [ segmentData |-> segmentData, append |-> append, closed |-> closed,
    isCancelled |-> isCancelled, events |-> events ]

NoInitPush == InitPush(Null, "none", FALSE, FALSE, << >>)

\* EVENTS.addedSegment(content, segment, buffered, segmentData)
AddedSegmentEvent(segmentData) == [ type |-> "added-segment", segmentData |-> segmentData ]
CompleteNotification == [ type |-> "complete", segmentData |-> Null ]
ErrorNotification == [ type |-> "error", segmentData |-> Null ]

\* obs.next, obs.complete, obs.error: a closed subscriber receives nothing;
\* complete and error close it, and the teardown (canceller.cancel()) runs
\* when it closes.
ObsNotify(push, notifications) ==
  IF push.closed \/ notifications = << >>
    THEN push
    ELSE [ push EXCEPT
             !.events = @ \o notifications,
             !.closed = notifications[Len(notifications)].type \in { "complete", "error" },
             !.isCancelled = notifications[Len(notifications)].type \in { "complete", "error" } ]

PushInitInit ==
  /\ initPushes = [ p \in InitPushes |-> NoInitPush ]
  /\ appendCalls = << >>

\* pushInitSegment(args).subscribe(): obs.complete() when segmentData is null,
\* then, in every case, the data is built and given to appendSegmentToBuffer;
\* the teardown returned runs at once when the subscriber is already closed.
PushInitSegment(p, segmentData) ==
  /\ initPushes[p].append = "none"
  /\ LET subscribed == InitPush(segmentData, "none", FALSE, FALSE, << >>)
         completed == IF segmentData = Null
                        THEN ObsNotify(subscribed, << CompleteNotification >>)
                        ELSE subscribed
     IN initPushes' = [ initPushes EXCEPT
                          ![p] = [ completed EXCEPT !.append = "pending",
                                                    !.isCancelled = completed.closed ] ]
  /\ appendCalls' = Append(appendCalls, PushedChunkData(segmentData))
  /\ UNCHANGED notPushInitVars

\* The Promise of appendSegmentToBuffer resolves: obs.next(addedSegment),
\* obs.complete().
AppendResolves(p) ==
  /\ initPushes[p].append = "pending"
  /\ initPushes' = [ initPushes EXCEPT
                       ![p] = [ ObsNotify(initPushes[p],
                                          << AddedSegmentEvent(initPushes[p].segmentData),
                                             CompleteNotification >>)
                                  EXCEPT !.append = "resolved" ] ]
  /\ UNCHANGED appendCalls
  /\ UNCHANGED notPushInitVars

\* The Promise of appendSegmentToBuffer rejects: obs.error(e).
AppendRejects(p) ==
  /\ initPushes[p].append = "pending"
  /\ initPushes' = [ initPushes EXCEPT
                       ![p] = [ ObsNotify(initPushes[p], << ErrorNotification >>)
                                  EXCEPT !.append = "rejected" ] ]
  /\ UNCHANGED appendCalls
  /\ UNCHANGED notPushInitVars

\* The subscriber unsubscribes: the teardown cancels the TaskCanceller.
PushInitUnsubscribe(p) ==
  /\ initPushes[p].append # "none"
  /\ ~initPushes[p].closed
  /\ initPushes' = [ initPushes EXCEPT ![p].closed = TRUE, ![p].isCancelled = TRUE ]
  /\ UNCHANGED appendCalls
  /\ UNCHANGED notPushInitVars

NextPushInit ==
  \/ \E p \in InitPushes, segmentData \in InitSegmentDatas : PushInitSegment(p, segmentData)
  \/ \E p \in InitPushes : AppendResolves(p)
  \/ \E p \in InitPushes : AppendRejects(p)
  \/ \E p \in InitPushes : PushInitUnsubscribe(p)

\* C40: a pushInitSegment subscribed to with segmentData = null has completed
\* its subscriber, which received no added-segment event, and has given
\* nothing to the SegmentBuffer to append: no appendSegmentToBuffer call was
\* made with a null init segment.
C40_NullInitSegmentPushesNothing ==
  \A p \in InitPushes :
    (initPushes[p].append # "none" /\ initPushes[p].segmentData = Null) =>
      /\ initPushes[p].events = << CompleteNotification >>
      /\ \A i \in DOMAIN appendCalls : appendCalls[i].initSegment # Null

-----------------------------------------------------------------------------
(***************************************************************************)
(*                           SPECIFICATIONS                                *)
(***************************************************************************)

InitFetch ==
  /\ \E config \in FetcherConfigs : FetchInit(config[1], config[2], config[3])
  /\ ObsInit(TRUE, FALSE)
  /\ AbrInit(Representations)
  /\ TcmInit(FALSE)
  /\ TemplateInit({ DefaultTemplateIndex })
  /\ BaseInit(1)
  /\ MpdInit({ StaticMpdRoot }, { << PlainPeriod >> }, { None })
  /\ AdaptationInit
  /\ StreamObsInit
  /\ PushInitInit

SpecFetch == InitFetch /\ [][NextFetch]_vars

InitObs ==
  /\ FetchInit(FALSE, FALSE, "video")
  /\ \E withMediaSource \in BOOLEAN : ObsInit(withMediaSource, FALSE)
  /\ AbrInit(Representations)
  /\ TcmInit(FALSE)
  /\ TemplateInit({ DefaultTemplateIndex })
  /\ BaseInit(1)
  /\ MpdInit({ StaticMpdRoot }, { << PlainPeriod >> }, { None })
  /\ AdaptationInit
  /\ StreamObsInit
  /\ PushInitInit

SpecObs == InitObs /\ [][NextObs]_vars

InitAbr ==
  /\ FetchInit(FALSE, FALSE, "video")
  /\ ObsInit(TRUE, FALSE)
  /\ \E representations \in { OneRepresentation, Representations } :
       AbrInit(representations)
  /\ TcmInit(FALSE)
  /\ TemplateInit({ DefaultTemplateIndex })
  /\ BaseInit(1)
  /\ MpdInit({ StaticMpdRoot }, { << PlainPeriod >> }, { None })
  /\ AdaptationInit
  /\ StreamObsInit
  /\ PushInitInit

SpecABR == InitAbr /\ [][NextAbr]_vars

InitTcm ==
  /\ FetchInit(FALSE, FALSE, "video")
  /\ ObsInit(TRUE, FALSE)
  /\ AbrInit(Representations)
  /\ \E preferTrickModeTracks \in BOOLEAN : TcmInit(preferTrickModeTracks)
  /\ TemplateInit({ DefaultTemplateIndex })
  /\ BaseInit(1)
  /\ MpdInit({ StaticMpdRoot }, { << PlainPeriod >> }, { None })
  /\ AdaptationInit
  /\ StreamObsInit
  /\ PushInitInit

SpecTCM == InitTcm /\ [][NextTcm]_vars

InitTemplate ==
  /\ FetchInit(FALSE, FALSE, "video")
  /\ ObsInit(TRUE, FALSE)
  /\ AbrInit(Representations)
  /\ TcmInit(FALSE)
  /\ TemplateInit({ WithPeriodEnd(index, periodDuration) :
                      index \in TemplateIndexes, periodDuration \in PeriodDurations }
                  \cup { LiveTemplateIndex })
  /\ BaseInit(1)
  /\ MpdInit({ StaticMpdRoot }, { << PlainPeriod >> }, { None })
  /\ AdaptationInit
  /\ StreamObsInit
  /\ PushInitInit

SpecTemplate == InitTemplate /\ [][NextTemplate]_vars

InitBase ==
  /\ FetchInit(FALSE, FALSE, "video")
  /\ ObsInit(TRUE, FALSE)
  /\ AbrInit(Representations)
  /\ TcmInit(FALSE)
  /\ TemplateInit({ DefaultTemplateIndex })
  /\ \E timescale \in { 1, 2 } : BaseInit(timescale)
  /\ MpdInit({ StaticMpdRoot }, { << PlainPeriod >> }, { None })
  /\ AdaptationInit
  /\ StreamObsInit
  /\ PushInitInit

SpecBase == InitBase /\ [][NextBase]_vars

InitMpd ==
  /\ FetchInit(FALSE, FALSE, "video")
  /\ ObsInit(TRUE, FALSE)
  /\ AbrInit(Representations)
  /\ TcmInit(FALSE)
  /\ TemplateInit({ DefaultTemplateIndex })
  /\ BaseInit(1)
  /\ MpdInit(MpdRoots, MpdPeriodLists, { None, Some("given") })
  /\ AdaptationInit
  /\ StreamObsInit
  /\ PushInitInit

\* Requests end (loaded, failed or cancelled) and their Promise callbacks run.
SpecMPD == InitMpd /\ [][NextMpd]_vars /\ WF_vars(NextMpd)

InitAdaptation ==
  /\ FetchInit(FALSE, FALSE, "video")
  /\ ObsInit(TRUE, FALSE)
  /\ AbrInit(Representations)
  /\ TcmInit(FALSE)
  /\ TemplateInit({ DefaultTemplateIndex })
  /\ BaseInit(1)
  /\ MpdInit({ StaticMpdRoot }, { << PlainPeriod >> }, { None })
  /\ AdaptationInit
  /\ StreamObsInit
  /\ PushInitInit

SpecAdaptation == InitAdaptation /\ [][NextAdaptation]_vars

InitStreamObs ==
  /\ FetchInit(FALSE, FALSE, "video")
  /\ ObsInit(TRUE, FALSE)
  /\ AbrInit(Representations)
  /\ TcmInit(FALSE)
  /\ TemplateInit({ DefaultTemplateIndex })
  /\ BaseInit(1)
  /\ MpdInit({ StaticMpdRoot }, { << PlainPeriod >> }, { None })
  /\ AdaptationInit
  /\ StreamObsInit
  /\ PushInitInit

SpecStreamObs == InitStreamObs /\ [][NextStreamObs]_vars

InitPushInit ==
  /\ FetchInit(FALSE, FALSE, "video")
  /\ ObsInit(TRUE, FALSE)
  /\ AbrInit(Representations)
  /\ TcmInit(FALSE)
  /\ TemplateInit({ DefaultTemplateIndex })
  /\ BaseInit(1)
  /\ MpdInit({ StaticMpdRoot }, { << PlainPeriod >> }, { None })
  /\ AdaptationInit
  /\ StreamObsInit
  /\ PushInitInit

SpecPushInit == InitPushInit /\ [][NextPushInit]_vars

====
